---- MODULE Spec2Model ----
(***************************************************************************)
(* A model of the Origin snapshot engine: the DPACK engine (pack, verify,  *)
(* unfurl, shape equivalence), the CPACK frame and codec (compress,        *)
(* decompress), the inclusion policy and the receipts.                     *)
(*                                                                         *)
(* Every Rust String, Vec<u8> and file content is a sequence of byte       *)
(* values 0..255; a path is the byte sequence of its text, '/' (47)        *)
(* separating its components.  The file system is one map from absolute    *)
(* path to content, plus the set of directories that exist.                *)
(***************************************************************************)
EXTENDS Integers, Sequences, FiniteSets, Bags, TLC

(***************************************************************************)
(* Bytes and sequences                                                     *)
(***************************************************************************)
Min(a, b) == IF a <= b THEN a ELSE b

Max(a, b) == IF a >= b THEN a ELSE b

\* s[from..to), Rust's half-open slice with 0-based offsets.
Slice(s, from, to) == SubSeq(s, from + 1, to)

StartsWith(s, p) == Len(p) <= Len(s) /\ SubSeq(s, 1, Len(p)) = p

EndsWith(s, p) == Len(p) <= Len(s) /\ SubSeq(s, Len(s) - Len(p) + 1, Len(s)) = p

Contains(s, b) == \E i \in 1..Len(s) : s[i] = b

\* The indices of s, in order, whose byte satisfies Test.
Positions(s, Test(_)) == SelectSeq([i \in 1..Len(s) |-> i], LAMBDA i : Test(s[i]))

\* Lexicographic order of byte strings: the order of Rust's String and of
\* BTreeMap<String, _>.
LexLess(a, b) ==
    \E k \in 1..(Min(Len(a), Len(b)) + 1) :
        /\ \A j \in 1..(k - 1) : a[j] = b[j]
        /\ \/ k = Len(a) + 1 /\ k <= Len(b)
           \/ k <= Len(a) /\ k <= Len(b) /\ a[k] < b[k]

\* The elements of a finite set of byte strings in ascending order.
RECURSIVE SortedSeq(_)
SortedSeq(S) ==
    IF S = {} THEN << >>
    ELSE LET m == CHOOSE x \in S : \A y \in S \ {x} : LexLess(x, y)
         IN  <<m>> \o SortedSeq(S \ {m})

\* Little-endian encoding of n in w bytes, as u32::to_le_bytes (w = 4) and
\* u64::to_le_bytes (w = 8); the model's lengths stay below 2^24.
ToLe(n, w) == [i \in 1..w |-> CASE i = 1 -> n % 256
                                [] i = 2 -> (n \div 256) % 256
                                [] i = 3 -> (n \div 65536) % 256
                                [] OTHER -> 0]

\* from_le_bytes; a value that does not fit the model's integers is reported as
\* TooBig, which is larger than any length the model builds.
TooBig == 16777216

FromLe(b) ==
    IF \E i \in 4..Len(b) : b[i] # 0 THEN TooBig
    ELSE b[1] + 256 * b[2] + 65536 * b[3]

\* Decimal digits of a natural number, as Display for u64 writes them.
RECURSIVE Dec(_)
Dec(n) == IF n < 10 THEN <<48 + n>> ELSE Dec(n \div 10) \o <<48 + (n % 10)>>

IsDigit(b) == b >= 48 /\ b <= 57

RECURSIVE UnDec(_)
UnDec(d) == IF Len(d) = 0 THEN 0 ELSE 10 * UnDec(SubSeq(d, 1, Len(d) - 1)) + (d[Len(d)] - 48)

(***************************************************************************)
(* SHA-256 (sha2 crate).  The digest is a fixed-width function of the      *)
(* bytes: four moment sums of the input modulo a prime, two bytes each,    *)
(* repeated to 32 bytes.  Two inputs of equal length that differ in at     *)
(* most four positions never share a digest.                               *)
(***************************************************************************)
HashPrime == 65521

HashWeight(i, l) ==
    CASE l = 0 -> 1
      [] l = 1 -> i % HashPrime
      [] l = 2 -> (i * i) % HashPrime
      [] OTHER -> (((i * i) % HashPrime) * i) % HashPrime

HashLane(data, l) ==
    LET terms == [i \in 1..Len(data) |->
                    (((data[i] + 1) * HashWeight(i, l)) % HashPrime) + 1]
    IN  (BagCardinality(terms) + Len(data) * (HashPrime - 1) + (l + 1) * 7919) % HashPrime

\* the 32 digest bytes: each lane as two bytes, the four lanes four times
HashSpread(lanes) ==
    [i \in 1..32 |->
        IF i % 2 = 1 THEN lanes[((i - 1) % 8) \div 2] \div 256
        ELSE lanes[((i - 1) % 8) \div 2] % 256]

sha256_bytes(data) == HashSpread([l \in 0..3 |-> HashLane(data, l)])

HexDigit(n) == IF n < 10 THEN 48 + n ELSE 87 + n

\* hex::encode: two lower-case hex digits per byte.
hex_encode(b) ==
    [i \in 1..(2 * Len(b)) |->
        LET x == b[(i + 1) \div 2]
        IN  IF i % 2 = 1 THEN HexDigit(x \div 16) ELSE HexDigit(x % 16)]

compute_sha256(data) == hex_encode(sha256_bytes(data))

(***************************************************************************)
(* Paths and the file system (std::path, std::fs, walkdir)                 *)
(***************************************************************************)
Slash == 47

Backslash == 92

\* Path::join: an absolute rel replaces base.
JoinPath(base, rel) ==
    IF Len(rel) > 0 /\ rel[1] = Slash THEN rel ELSE base \o <<Slash>> \o rel

IsSlash(b) == b = Slash

\* The directories above p, the root excluded.
Ancestors(p) ==
    LET sl == Positions(p, IsSlash)
    IN  {SubSeq(p, 1, sl[k] - 1) : k \in {j \in 1..Len(sl) : sl[j] > 1}}

\* Path::parent.
Parent(p) ==
    LET sl == Positions(p, IsSlash)
    IN  IF Len(sl) = 0 THEN << >> ELSE SubSeq(p, 1, sl[Len(sl)] - 1)

EmptyFs == [files |-> << >>, dirs |-> {}]

IsFile(F, p) == p \in DOMAIN F.files

IsDir(F, p) == p \in F.dirs

\* Path::exists.
PathExists(F, p) == IsFile(F, p) \/ IsDir(F, p)

\* std::fs::create_dir_all: fails when a component is a regular file.
create_dir_all(F, p) ==
    LET need == Ancestors(p) \cup {p}
    IN  IF \E q \in need : IsFile(F, q)
        THEN [ok |-> FALSE, fs |-> F]
        ELSE [ok |-> TRUE, fs |-> [F EXCEPT !.dirs = @ \cup need]]

\* std::fs::write: creates or truncates the file; the parent must be a directory.
fs_write(F, p, content) ==
    IF ~IsDir(F, Parent(p)) \/ IsDir(F, p)
    THEN [ok |-> FALSE, fs |-> F]
    ELSE [ok |-> TRUE,
          fs |-> [F EXCEPT !.files = [q \in (DOMAIN @) \cup {p} |->
                                         IF q = p THEN content ELSE @[q]]]]

\* create_dir_all(parent) followed by write; when the write fails the
\* directories made for it stay
write_under(F, p, content) == fs_write(create_dir_all(F, Parent(p)).fs, p, content)

\* The order in which WalkDir::sort_by_file_name yields the files below a root:
\* depth first, each directory's entries by name, so a component that ends
\* sorts before any longer one.
WalkKey(p) == [i \in 1..Len(p) |-> IF p[i] = Slash THEN -1 ELSE p[i]]

RECURSIVE WalkSorted(_)
WalkSorted(S) ==
    IF S = {} THEN << >>
    ELSE LET m == CHOOSE x \in S : \A y \in S \ {x} : LexLess(WalkKey(x), WalkKey(y))
         IN  <<m>> \o WalkSorted(S \ {m})

\* WalkDir::new(root).follow_links(false).sort_by_file_name(), the regular files
\* only: their paths relative to root (strip_prefix), in walk order.
WalkFiles(F, root) ==
    LET pre == root \o <<Slash>>
    IN  WalkSorted({SubSeq(p, Len(pre) + 1, Len(p)) :
                        p \in {q \in DOMAIN F.files : StartsWith(q, pre)}})

\* to_string_lossy().replace('\\', "/")
NormalizeRel(rel) == [i \in 1..Len(rel) |-> IF rel[i] = Backslash THEN Slash ELSE rel[i]]

(***************************************************************************)
(* Policy (dpack_core/src/policy.rs).  A match is "T" or "F"; "P" is the   *)
(* panic of an out-of-range slice.                                         *)
(***************************************************************************)
Star == 42

S_ddslash == <<42, 42, 47>>      \* "**/"

S_slashdd == <<47, 42, 42>>      \* "/**"

S_git_all == <<46, 103, 105, 116, 47, 42, 42>>   \* ".git/**"

S_git == <<46, 103, 105, 116>>   \* ".git"

Policy_default == [include |-> << >>, exclude |-> <<S_git_all, S_git>>]

\* The first result that is not "F" among rs, else "F": a loop that returns on
\* the first match and unwinds on the first panic.
FirstDecided(rs) ==
    IF \A i \in 1..Len(rs) : rs[i] = "F" THEN "F"
    ELSE rs[CHOOSE i \in 1..Len(rs) : rs[i] # "F" /\ \A j \in 1..(i - 1) : rs[j] = "F"]

GlobSingleStar(pattern, path) ==
    LET star == Positions(pattern, LAMBDA b : b = Star)
        p0   == SubSeq(pattern, 1, star[1] - 1)
        p1   == SubSeq(pattern, star[1] + 1, Len(pattern))
    IN  IF Len(star) # 1 THEN "F"
        ELSE IF ~StartsWith(path, p0) THEN "F"
        ELSE IF ~EndsWith(path, p1) THEN "F"
        ELSE IF Len(p0) > Len(path) - Len(p1) THEN "P"
        ELSE IF Contains(Slice(path, Len(p0), Len(path) - Len(p1)), Slash) THEN "F"
        ELSE "T"

GlobDirSuffix(pattern, path) ==
    LET prefix == SubSeq(pattern, 1, Len(pattern) - 3)
    IN  IF StartsWith(path, prefix)
           /\ (Len(path) = Len(prefix) \/ path[Len(prefix) + 1] = Slash)
        THEN "T" ELSE "F"

RECURSIVE glob_match(_, _)
glob_match(pattern, path) ==
    IF pattern = path THEN "T"
    ELSE IF StartsWith(pattern, S_ddslash) THEN
        LET suffix == SubSeq(pattern, 4, Len(pattern))
            sl     == Positions(path, IsSlash)
            inner  == FirstDecided([k \in 1..Len(sl) |->
                          glob_match(suffix, SubSeq(path, sl[k] + 1, Len(path)))])
        IN  IF EndsWith(path, suffix) THEN "T"
            ELSE IF inner # "F" THEN inner
            ELSE glob_match(suffix, path)
    ELSE IF EndsWith(pattern, S_slashdd) THEN GlobDirSuffix(pattern, path)
    ELSE IF Contains(pattern, Star) THEN GlobSingleStar(pattern, path)
    ELSE "F"

\* is_allowed as it would be if the include list were consulted before the
\* exclude list
is_allowed_includefirst(policy, rel_path) ==
    LET ex == FirstDecided([k \in 1..Len(policy.exclude) |->
                               glob_match(policy.exclude[k], rel_path)])
        inc == FirstDecided([k \in 1..Len(policy.include) |->
                               glob_match(policy.include[k], rel_path)])
    IN  IF inc # "F" THEN inc
        ELSE IF ex = "T" THEN "F"
        ELSE IF ex = "P" THEN "P"
        ELSE IF Len(policy.include) = 0 THEN "T"
        ELSE "F"

\* Policy::is_allowed: the excludes in order, then the includes in order
is_allowed(policy, rel_path) ==
    LET ex == FirstDecided([k \in 1..Len(policy.exclude) |->
                               glob_match(policy.exclude[k], rel_path)])
        inc == FirstDecided([k \in 1..Len(policy.include) |->
                               glob_match(policy.include[k], rel_path)])
    IN  IF ex = "T" THEN "F"
        ELSE IF ex = "P" THEN "P"
        ELSE IF Len(policy.include) = 0 THEN "T"
        ELSE inc

(***************************************************************************)
(* Result<T, E>: Ok(v), or Err of a PackError / FrameError variant.  A     *)
(* panic (an index out of range) ends the call with err = "Panic".  A      *)
(* call that writes returns [fs |-> the file system after it, res |-> its  *)
(* Result].                                                                *)
(***************************************************************************)
Ok(v) == [ok |-> TRUE, err |-> "", reason |-> << >>, v |-> v]
Err(kind) == [ok |-> FALSE, err |-> kind, reason |-> << >>, v |-> << >>]
ErrReason(kind, reason) == [ok |-> FALSE, err |-> kind, reason |-> reason, v |-> << >>]

\* the end of a call whose last step is a write
Written(wrote, v) ==
    IF wrote.ok THEN [fs |-> wrote.fs, res |-> Ok(v)]
    ELSE [fs |-> wrote.fs, res |-> Err("Io")]

(***************************************************************************)
(* serde_json as the program uses it.  to_string_pretty indents by two     *)
(* spaces and puts ": " after a key; to_vec writes no white space.  Text   *)
(* is escaped for the quote, the backslash and the line feed (the other    *)
(* control characters never occur in the modelled strings).                *)
(***************************************************************************)
JsonEscape(s) ==
    LET d == [i \in 1..(2 * Len(s)) |->
                 LET c == s[(i + 1) \div 2]
                 IN  IF i % 2 = 1
                     THEN (IF c = 34 \/ c = 92 \/ c = 10 THEN 92 ELSE -1)
                     ELSE (IF c = 10 THEN 110 ELSE c)]
    IN  IF \A i \in 1..Len(s) : s[i] # 34 /\ s[i] # 92 /\ s[i] # 10 THEN s
        ELSE SelectSeq(d, LAMBDA b : b # -1)

JString(s) == <<34>> \o JsonEscape(s) \o <<34>>

Newline(pretty, depth) ==
    IF pretty THEN <<10>> \o [i \in 1..(2 * depth) |-> 32] ELSE << >>

RECURSIVE JoinBytes(_, _)
JoinBytes(parts, sep) ==
    IF Len(parts) = 0 THEN << >>
    ELSE IF Len(parts) = 1 THEN parts[1]
    ELSE parts[1] \o sep \o JoinBytes(Tail(parts), sep)

\* members: a sequence of [k |-> key text, v |-> serialised value]
JObject(pretty, depth, members) ==
    IF Len(members) = 0 THEN <<123, 125>> (* "{}" *)
    ELSE <<123>> \o Newline(pretty, depth + 1)
         \o JoinBytes([i \in 1..Len(members) |->
                          JString(members[i].k)
                          \o (IF pretty THEN <<58, 32>> (* ": " *) ELSE <<58>> (* ":" *))
                          \o members[i].v],
                      <<44>> \o Newline(pretty, depth + 1))
         \o Newline(pretty, depth) \o <<125>>

JArray(pretty, depth, items) ==
    IF Len(items) = 0 THEN <<91, 93>> (* "[]" *)
    ELSE <<91>> \o Newline(pretty, depth + 1)
         \o JoinBytes(items, <<44>> \o Newline(pretty, depth + 1))
         \o Newline(pretty, depth) \o <<93>>

(***************************************************************************)
(* DpackManifest and FileEntry.  files is a BTreeMap: a function from the  *)
(* relative path to [sha256, size], iterated in ascending byte order.      *)
(***************************************************************************)
S_schema_1_0 == <<49, 46, 48>> (* "1.0" *)

FileEntry(sha256, size) == [sha256 |-> sha256, size |-> size]

DpackManifest(schema_version, fingerprint, created_at, source_root, files, pack_hash) ==
    [schema_version |-> schema_version,
     root_2i_seed_fingerprint |-> fingerprint,
     created_at |-> created_at,
     source_root |-> source_root,
     files |-> files,
     pack_hash |-> pack_hash]

BTreeKeys(map) == SortedSeq(DOMAIN map)

\* the bytes fed to the hasher: path ":" sha256 "\n" for each entry in key order
PackHashPreimage(files) ==
    LET ks == BTreeKeys(files)
    IN  JoinBytes([i \in 1..Len(ks) |-> ks[i] \o <<58>> \o files[ks[i]].sha256 \o <<10>>],
                  << >>)

compute_pack_hash(files) == compute_sha256(PackHashPreimage(files))

verify_integrity(manifest) == manifest.pack_hash = compute_pack_hash(manifest.files)

manifest_to_json(pretty, m) ==
    LET ks == BTreeKeys(m.files)
        entry(p) == JObject(pretty, 2,
                        <<[k |-> <<115, 104, 97, 50, 53, 54>> (* "sha256" *), v |-> JString(m.files[p].sha256)],
                          [k |-> <<115, 105, 122, 101>> (* "size" *), v |-> Dec(m.files[p].size)]>>)
    IN  JObject(pretty, 0,
          <<[k |-> <<115, 99, 104, 101, 109, 97, 95, 118, 101, 114, 115, 105, 111, 110>> (* "schema_version" *), v |-> JString(m.schema_version)],
            [k |-> <<114, 111, 111, 116, 95, 50, 105, 95, 115, 101, 101, 100, 95, 102, 105, 110, 103, 101, 114, 112, 114, 105, 110, 116>> (* "root_2i_seed_fingerprint" *), v |-> JString(m.root_2i_seed_fingerprint)],
            [k |-> <<99, 114, 101, 97, 116, 101, 100, 95, 97, 116>> (* "created_at" *), v |-> JString(m.created_at)],
            [k |-> <<115, 111, 117, 114, 99, 101, 95, 114, 111, 111, 116>> (* "source_root" *), v |-> JString(m.source_root)],
            [k |-> <<102, 105, 108, 101, 115>> (* "files" *),
             v |-> JObject(pretty, 1, [i \in 1..Len(ks) |-> [k |-> ks[i], v |-> entry(ks[i])]])],
            [k |-> <<112, 97, 99, 107, 95, 104, 97, 115, 104>> (* "pack_hash" *), v |-> JString(m.pack_hash)]>>)

(***************************************************************************)
(* serde_json::from_str / from_slice for a DpackManifest.  The text is     *)
(* cut at its quotes: with k files there are 11 + 4k strings, in the       *)
(* order of the struct's fields.  A text is accepted when it is exactly    *)
(* what one of the two serialisers writes for the value read from it; any  *)
(* other text (and any text with an escape or a non-ASCII byte) is a       *)
(* parse error.                                                            *)
(***************************************************************************)
manifest_from_json(bytes) ==
    LET q == Positions(bytes, LAMBDA b : b = 34)
        ns == Len(q) \div 2
        k == (ns - 11) \div 4
        str(j) == SubSeq(bytes, q[2 * j - 1] + 1, q[2 * j] - 1)
        pretty == Len(bytes) >= 2 /\ bytes[2] = 10
        num(j) == LET start == q[2 * j] + (IF pretty THEN 3 ELSE 2)
                      rest == SubSeq(bytes, start, Len(bytes))
                      nd == Positions(rest, LAMBDA b : ~IsDigit(b))
                  IN  IF Len(nd) = 0 THEN rest ELSE SubSeq(rest, 1, nd[1] - 1)
        plain == \A i \in 1..Len(bytes) : bytes[i] < 128 /\ bytes[i] # 92
        counted == Len(q) % 2 = 0 /\ ns >= 11 /\ (ns - 11) % 4 = 0
        at(i) == 10 + 4 * (i - 1)
        paths == {str(at(i)) : i \in 1..k}
        idx(p) == CHOOSE i \in 1..k : str(at(i)) = p
        sized == \A i \in 1..k : Len(num(at(i) + 3)) \in 1..9
        m == DpackManifest(str(2), str(4), str(6), str(8),
                 [p \in paths |-> FileEntry(str(at(idx(p)) + 2), UnDec(num(at(idx(p)) + 3)))],
                 str(ns))
    IN  IF plain /\ counted /\ sized /\ manifest_to_json(pretty, m) = bytes
        THEN Ok(m)
        ELSE Err("Json")

(***************************************************************************)
(* Receipts.                                                               *)
(***************************************************************************)
G0_SCHEMA == <<71, 48, 95, 83, 67, 72, 69, 77, 65>> (* "G0_SCHEMA" *)
G1_INTEGRITY == <<71, 49, 95, 73, 78, 84, 69, 71, 82, 73, 84, 89>> (* "G1_INTEGRITY" *)
G3_PINNING == <<71, 51, 95, 80, 73, 78, 78, 73, 78, 71>> (* "G3_PINNING" *)
G4_SEED_BINDING == <<71, 52, 95, 83, 69, 69, 68, 95, 66, 73, 78, 68, 73, 78, 71>> (* "G4_SEED_BINDING" *)
G6_ORGASYSTEM_SHAPE == <<71, 54, 95, 79, 82, 71, 65, 83, 89, 83, 84, 69, 77, 95, 83, 72, 65, 80, 69>> (* "G6_ORGASYSTEM_SHAPE" *)
G7_RELEASE_RECEIPT == <<71, 55, 95, 82, 69, 76, 69, 65, 83, 69, 95, 82, 69, 67, 69, 73, 80, 84>> (* "G7_RELEASE_RECEIPT" *)

GateStatus == {"Pass", "Fail", "Skip"}

GateResult(gate, status, detail) == [gate |-> gate, status |-> status, detail |-> detail]

Some(v) == [some |-> TRUE, v |-> v]
None == [some |-> FALSE, v |-> << >>]

\* AuditReceipt::new as it would be if only a Pass let a receipt pass
AuditReceipt_new_strict(operation, fingerprint, pack_hash, gates, now) ==
    [operation |-> operation,
     timestamp |-> now,
     root_2i_seed_fingerprint |-> fingerprint,
     pack_hash |-> pack_hash,
     gates |-> gates,
     passed |-> \A i \in 1..Len(gates) : gates[i].status = "Pass"]

\* AuditReceipt::new; now is what chrono::Utc::now().to_rfc3339() returns
AuditReceipt_new(operation, fingerprint, pack_hash, gates, now) ==
    [operation |-> operation,
     timestamp |-> now,
     root_2i_seed_fingerprint |-> fingerprint,
     pack_hash |-> pack_hash,
     gates |-> gates,
     passed |-> \A i \in 1..Len(gates) : gates[i].status # "Fail"]

GateStatusJson(status) ==
    CASE status = "Pass" -> <<80, 97, 115, 115>> (* "Pass" *)
      [] status = "Fail" -> <<70, 97, 105, 108>> (* "Fail" *)
      [] OTHER -> <<83, 107, 105, 112>> (* "Skip" *)

receipt_to_json(r) ==
    LET gate(g) == JObject(TRUE, 2,
                       <<[k |-> <<103, 97, 116, 101>> (* "gate" *), v |-> JString(g.gate)],
                         [k |-> <<115, 116, 97, 116, 117, 115>> (* "status" *), v |-> JString(GateStatusJson(g.status))],
                         [k |-> <<100, 101, 116, 97, 105, 108>> (* "detail" *), v |-> JString(g.detail)]>>)
    IN  JObject(TRUE, 0,
          <<[k |-> <<111, 112, 101, 114, 97, 116, 105, 111, 110>> (* "operation" *), v |-> JString(r.operation)],
            [k |-> <<116, 105, 109, 101, 115, 116, 97, 109, 112>> (* "timestamp" *), v |-> JString(r.timestamp)],
            [k |-> <<114, 111, 111, 116, 95, 50, 105, 95, 115, 101, 101, 100, 95, 102, 105, 110, 103, 101, 114, 112, 114, 105, 110, 116>> (* "root_2i_seed_fingerprint" *), v |-> JString(r.root_2i_seed_fingerprint)],
            [k |-> <<112, 97, 99, 107, 95, 104, 97, 115, 104>> (* "pack_hash" *),
             v |-> IF r.pack_hash.some THEN JString(r.pack_hash.v) ELSE <<110, 117, 108, 108>> (* "null" *)],
            [k |-> <<103, 97, 116, 101, 115>> (* "gates" *),
             v |-> JArray(TRUE, 1, [i \in 1..Len(r.gates) |-> gate(r.gates[i])])],
            [k |-> <<112, 97, 115, 115, 101, 100>> (* "passed" *), v |-> IF r.passed THEN <<116, 114, 117, 101>> (* "true" *) ELSE <<102, 97, 108, 115, 101>> (* "false" *)]>>)

(***************************************************************************)
(* Seeds.                                                                  *)
(***************************************************************************)
\* Seed::load without the file read: the fingerprint is the digest of the bytes
Seed_load(bytes) == [bytes |-> bytes, fingerprint |-> compute_sha256(bytes)]

Prefix16(s) == SubSeq(s, 1, 16)

S_manifest_json == <<109, 97, 110, 105, 102, 101, 115, 116, 46, 106, 115, 111, 110>> (* "manifest.json" *)
S_data == <<100, 97, 116, 97>> (* "data" *)
S_receipt_json == <<114, 101, 99, 101, 105, 112, 116, 46, 106, 115, 111, 110>> (* "receipt.json" *)
S_unfurl_receipt_json == <<117, 110, 102, 117, 114, 108, 95, 114, 101, 99, 101, 105, 112, 116, 46, 106, 115, 111, 110>> (* "unfurl_receipt.json" *)

(***************************************************************************)
(* pack_repo.  The loop over the walk copies each allowed file into data/  *)
(* and inserts its entry; it stops at the first I/O error or panic, and    *)
(* what it wrote before stays written.                                     *)
(***************************************************************************)
RECURSIVE PackWalk(_, _, _, _, _, _)
PackWalk(F, repo_root, data_dir, policy, walk, files) ==
    IF Len(walk) = 0 THEN [fs |-> F, err |-> "", files |-> files]
    ELSE LET rel_path == NormalizeRel(Head(walk))
             allowed == is_allowed(policy, rel_path)
             content == F.files[JoinPath(repo_root, Head(walk))]
             wrote == write_under(F, JoinPath(data_dir, rel_path), content)
         IN  IF allowed = "P" THEN [fs |-> F, err |-> "Panic", files |-> files]
             ELSE IF allowed = "F"
                  THEN PackWalk(F, repo_root, data_dir, policy, Tail(walk), files)
             ELSE IF ~wrote.ok THEN [fs |-> wrote.fs, err |-> "Io", files |-> files]
             ELSE PackWalk(wrote.fs, repo_root, data_dir, policy, Tail(walk),
                           [p \in (DOMAIN files) \cup {rel_path} |->
                               IF p = rel_path
                               THEN FileEntry(compute_sha256(content), Len(content))
                               ELSE files[p]])

\* the four gates pack_repo pushes before the manifest is written
PackGates(pack_hash, seed, files) ==
    <<GateResult(G0_SCHEMA, "Pass", <<109, 97, 110, 105, 102, 101, 115, 116, 32, 115, 99, 104, 101, 109, 97, 32, 118, 49, 46, 48>> (* "manifest schema v1.0" *)),
      GateResult(G1_INTEGRITY, "Pass", <<112, 97, 99, 107, 95, 104, 97, 115, 104, 61>> (* "pack_hash=" *) \o Prefix16(pack_hash)),
      GateResult(G4_SEED_BINDING, "Pass", <<115, 101, 101, 100, 95, 102, 112, 61>> (* "seed_fp=" *) \o Prefix16(seed.fingerprint)),
      GateResult(G6_ORGASYSTEM_SHAPE, "Pass",
                 Dec(Cardinality(DOMAIN files)) \o <<32, 102, 105, 108, 101, 115, 32, 112, 97, 99, 107, 101, 100>> (* " files packed" *))>>

\* the manifest as it would be with pack_hash taken over the file digests
\* alone, without the paths
PackManifest_digests(repo_root, seed, files, now) ==
    DpackManifest(S_schema_1_0, seed.fingerprint, now, repo_root, files,
                  compute_sha256(JoinBytes([i \in 1..Len(BTreeKeys(files)) |->
                                               files[BTreeKeys(files)[i]].sha256], << >>)))

\* the manifest as it would be with the time of the run hashed into pack_hash
PackManifest_timed(repo_root, seed, files, now) ==
    DpackManifest(S_schema_1_0, seed.fingerprint, now, repo_root, files,
                  compute_sha256(now \o PackHashPreimage(files)))

\* the manifest of a pack: pack_hash is computed from the collected entries only
PackManifest(repo_root, seed, files, now) ==
    DpackManifest(S_schema_1_0, seed.fingerprint, now, repo_root, files,
                  compute_pack_hash(files))

\* the receipt is written after the manifest
PackFinish(wroteM, output_dir, receipt) ==
    IF ~wroteM.ok THEN [fs |-> wroteM.fs, res |-> Err("Io")]
    ELSE Written(fs_write(wroteM.fs, JoinPath(output_dir, S_receipt_json),
                          receipt_to_json(receipt)),
                 receipt)

PackWrite(F, output_dir, seed, manifest, now) ==
    PackFinish(fs_write(F, JoinPath(output_dir, S_manifest_json),
                        manifest_to_json(TRUE, manifest)),
               output_dir,
               AuditReceipt_new(<<112, 97, 99, 107>> (* "pack" *), seed.fingerprint, Some(manifest.pack_hash),
                   PackGates(manifest.pack_hash, seed, manifest.files)
                   \o <<GateResult(G7_RELEASE_RECEIPT, "Pass", <<109, 97, 110, 105, 102, 101, 115, 116, 32, 119, 114, 105, 116, 116, 101, 110>> (* "manifest written" *))>>,
                   now))

PackCollected(walked, repo_root, output_dir, seed, now) ==
    IF walked.err # "" THEN [fs |-> walked.fs, res |-> Err(walked.err)]
    ELSE IF Len(seed.fingerprint) < 16 THEN [fs |-> walked.fs, res |-> Err("Panic")]
    ELSE PackWrite(walked.fs, output_dir, seed,
                   PackManifest(repo_root, seed, walked.files, now), now)

PackInto(made, repo_root, output_dir, seed, policy, now) ==
    IF ~made.ok THEN [fs |-> made.fs, res |-> Err("Io")]
    ELSE IF ~IsDir(made.fs, repo_root) THEN [fs |-> made.fs, res |-> Err("Walk")]
    ELSE PackCollected(PackWalk(made.fs, repo_root, JoinPath(output_dir, S_data), policy,
                                WalkFiles(made.fs, repo_root), << >>),
                       repo_root, output_dir, seed, now)

\* pack_repo as it would be if the policy were not consulted
pack_repo_unfiltered(F, repo_root, output_dir, seed, policy, now) ==
    PackInto(create_dir_all(F, JoinPath(output_dir, S_data)), repo_root, output_dir, seed,
             [include |-> << >>, exclude |-> << >>], now)

pack_repo(F, repo_root, output_dir, seed, policy, now) ==
    PackInto(create_dir_all(F, JoinPath(output_dir, S_data)), repo_root, output_dir, seed,
             IF policy.some THEN policy.v ELSE Policy_default, now)

(***************************************************************************)
(* verify_pack.                                                            *)
(***************************************************************************)
\* read_to_string (an error on a missing file or on bytes that are not
\* UTF-8) followed by serde_json::from_str
ReadManifestText(text) ==
    IF \E i \in 1..Len(text) : text[i] >= 128 THEN Err("Io")
    ELSE manifest_from_json(text)

ReadManifest(F, pack_dir) ==
    IF ~IsFile(F, JoinPath(pack_dir, S_manifest_json)) THEN Err("Io")
    ELSE ReadManifestText(F.files[JoinPath(pack_dir, S_manifest_json)])

SchemaGate(manifest) ==
    GateResult(G0_SCHEMA,
               IF manifest.schema_version = S_schema_1_0 THEN "Pass" ELSE "Fail",
               <<115, 99, 104, 101, 109, 97, 95, 118, 101, 114, 115, 105, 111, 110, 61>> (* "schema_version=" *) \o manifest.schema_version)

IntegrityGate(integrity_ok) ==
    GateResult(G1_INTEGRITY,
               IF integrity_ok THEN "Pass" ELSE "Fail",
               IF integrity_ok THEN <<112, 97, 99, 107, 95, 104, 97, 115, 104, 32, 109, 97, 116, 99, 104, 101, 115>> (* "pack_hash matches" *) ELSE <<112, 97, 99, 107, 95, 104, 97, 115, 104, 32, 109, 105, 115, 109, 97, 116, 99, 104>> (* "pack_hash mismatch" *))

\* what the G3 loop finds for one entry: "ok", "mismatch" or "missing"
PinCheck(F, data_dir, rel_path, entry) ==
    IF ~IsFile(F, JoinPath(data_dir, rel_path)) THEN "missing"
    ELSE IF compute_sha256(F.files[JoinPath(data_dir, rel_path)]) # entry.sha256
    THEN "mismatch"
    ELSE "ok"

\* the G3 gate as it would be if the loop ran on after a failure and kept
\* the last one
PinningFound_last(ks, found, bad) ==
    IF Len(bad) = 0
    THEN GateResult(G3_PINNING, "Pass", Dec(Len(ks)) \o <<32, 102, 105, 108, 101, 115, 32, 118, 101, 114, 105, 102, 105, 101, 100>> (* " files verified" *))
    ELSE IF found[bad[Len(bad)]] = "mismatch"
    THEN GateResult(G3_PINNING, "Fail", <<104, 97, 115, 104, 32, 109, 105, 115, 109, 97, 116, 99, 104, 58, 32>> (* "hash mismatch: " *) \o ks[bad[Len(bad)]])
    ELSE GateResult(G3_PINNING, "Fail", <<102, 105, 108, 101, 32, 109, 105, 115, 115, 105, 110, 103, 58, 32>> (* "file missing: " *) \o ks[bad[Len(bad)]])

\* the G3 gate from what the loop found at each key, in key order: it
\* breaks at the first entry that is not ok
PinningFound(ks, found, bad) ==
    IF Len(bad) = 0
    THEN GateResult(G3_PINNING, "Pass", Dec(Len(ks)) \o <<32, 102, 105, 108, 101, 115, 32, 118, 101, 114, 105, 102, 105, 101, 100>> (* " files verified" *))
    ELSE IF found[bad[1]] = "mismatch"
    THEN GateResult(G3_PINNING, "Fail", <<104, 97, 115, 104, 32, 109, 105, 115, 109, 97, 116, 99, 104, 58, 32>> (* "hash mismatch: " *) \o ks[bad[1]])
    ELSE GateResult(G3_PINNING, "Fail", <<102, 105, 108, 101, 32, 109, 105, 115, 115, 105, 110, 103, 58, 32>> (* "file missing: " *) \o ks[bad[1]])

PinningKeys(F, data_dir, files, ks) ==
    PinningFound(ks,
                 [i \in 1..Len(ks) |-> PinCheck(F, data_dir, ks[i], files[ks[i]])],
                 SelectSeq([i \in 1..Len(ks) |-> i],
                           LAMBDA i : PinCheck(F, data_dir, ks[i], files[ks[i]]) # "ok"))

PinningGate(F, data_dir, files) == PinningKeys(F, data_dir, files, BTreeKeys(files))

\* the G4 gate as it would be with a comparison that ignores case
SeedGate_nocase(fp, seed) ==
    IF [i \in 1..Len(fp) |-> IF fp[i] >= 97 /\ fp[i] <= 122 THEN fp[i] - 32 ELSE fp[i]]
       = [i \in 1..Len(seed.fingerprint) |->
             IF seed.fingerprint[i] >= 97 /\ seed.fingerprint[i] <= 122
             THEN seed.fingerprint[i] - 32 ELSE seed.fingerprint[i]]
    THEN GateResult(G4_SEED_BINDING, "Pass", <<115, 101, 101, 100, 32, 102, 105, 110, 103, 101, 114, 112, 114, 105, 110, 116, 32, 109, 97, 116, 99, 104, 101, 115>> (* "seed fingerprint matches" *))
    ELSE GateResult(G4_SEED_BINDING, "Fail",
             <<101, 120, 112, 101, 99, 116, 101, 100, 32>> (* "expected " *) \o Prefix16(seed.fingerprint) \o <<44, 32, 103, 111, 116, 32>> (* ", got " *)
             \o SubSeq(fp, 1, Min(16, Len(fp))))

SeedGate(fp, seed) ==
    IF fp = seed.fingerprint
    THEN GateResult(G4_SEED_BINDING, "Pass", <<115, 101, 101, 100, 32, 102, 105, 110, 103, 101, 114, 112, 114, 105, 110, 116, 32, 109, 97, 116, 99, 104, 101, 115>> (* "seed fingerprint matches" *))
    ELSE GateResult(G4_SEED_BINDING, "Fail",
             <<101, 120, 112, 101, 99, 116, 101, 100, 32>> (* "expected " *) \o Prefix16(seed.fingerprint) \o <<44, 32, 103, 111, 116, 32>> (* ", got " *)
             \o SubSeq(fp, 1, Min(16, Len(fp))))

VerifyGates(F, data_dir, manifest, seed) ==
    <<SchemaGate(manifest),
      IntegrityGate(verify_integrity(manifest)),
      PinningGate(F, data_dir, manifest.files),
      SeedGate(manifest.root_2i_seed_fingerprint, seed)>>

VerifyRead(F, pack_dir, seed, now, read) ==
    IF ~read.ok THEN read
    ELSE IF read.v.root_2i_seed_fingerprint # seed.fingerprint /\ Len(seed.fingerprint) < 16
    THEN Err("Panic")
    ELSE Ok(AuditReceipt_new(<<118, 101, 114, 105, 102, 121>> (* "verify" *), seed.fingerprint, Some(read.v.pack_hash),
                             VerifyGates(F, JoinPath(pack_dir, S_data), read.v, seed), now))

verify_pack(F, pack_dir, seed, now) ==
    IF ~PathExists(F, pack_dir) THEN Err("PackNotFound")
    ELSE VerifyRead(F, pack_dir, seed, now, ReadManifest(F, pack_dir))

(***************************************************************************)
(* unfurl_pack.                                                            *)
(***************************************************************************)
\* the restore loop: err is "", "Io" or "Mismatch" (with the path in at)
\* the loop as it would be if the file were written before its digest is
\* compared
RECURSIVE UnfurlLoop_writefirst(_, _, _, _, _, _)
UnfurlLoop_writefirst(F, data_dir, target_dir, files, ks, restored) ==
    IF Len(ks) = 0 THEN [fs |-> F, err |-> "", at |-> << >>, restored |-> restored]
    ELSE LET rel_path == Head(ks)
             made == create_dir_all(F, Parent(JoinPath(target_dir, rel_path)))
             content == F.files[JoinPath(data_dir, rel_path)]
             wrote == fs_write(made.fs, JoinPath(target_dir, rel_path), content)
         IN  IF ~made.ok \/ ~IsFile(made.fs, JoinPath(data_dir, rel_path))
             THEN [fs |-> made.fs, err |-> "Io", at |-> rel_path, restored |-> restored]
             ELSE IF ~wrote.ok
             THEN [fs |-> wrote.fs, err |-> "Io", at |-> rel_path, restored |-> restored]
             ELSE IF compute_sha256(content) # files[rel_path].sha256
             THEN [fs |-> wrote.fs, err |-> "Mismatch", at |-> rel_path,
                   restored |-> restored]
             ELSE UnfurlLoop_writefirst(wrote.fs, data_dir, target_dir, files, Tail(ks),
                                        restored + 1)

RECURSIVE UnfurlLoop(_, _, _, _, _, _)
UnfurlLoop(F, data_dir, target_dir, files, ks, restored) ==
    IF Len(ks) = 0 THEN [fs |-> F, err |-> "", at |-> << >>, restored |-> restored]
    ELSE LET rel_path == Head(ks)
             made == create_dir_all(F, Parent(JoinPath(target_dir, rel_path)))
             content == F.files[JoinPath(data_dir, rel_path)]
             wrote == fs_write(made.fs, JoinPath(target_dir, rel_path), content)
         IN  IF ~made.ok \/ ~IsFile(made.fs, JoinPath(data_dir, rel_path))
             THEN [fs |-> made.fs, err |-> "Io", at |-> rel_path, restored |-> restored]
             ELSE IF compute_sha256(content) # files[rel_path].sha256
             THEN [fs |-> made.fs, err |-> "Mismatch", at |-> rel_path,
                   restored |-> restored]
             ELSE IF ~wrote.ok
             THEN [fs |-> wrote.fs, err |-> "Io", at |-> rel_path, restored |-> restored]
             ELSE UnfurlLoop(wrote.fs, data_dir, target_dir, files, Tail(ks), restored + 1)

\* the receipt of a completed restore
UnfurlReceipt(seed, pack_hash, restored, now) ==
    AuditReceipt_new(<<117, 110, 102, 117, 114, 108>> (* "unfurl" *), seed.fingerprint, Some(pack_hash),
        <<GateResult(G3_PINNING, "Pass",
                     Dec(restored) \o <<32, 102, 105, 108, 101, 115, 32, 114, 101, 115, 116, 111, 114, 101, 100, 32, 119, 105, 116, 104, 32, 118, 101, 114, 105, 102, 105, 101, 100, 32, 104, 97, 115, 104, 101, 115>> (* " files restored with verified hashes" *)),
          GateResult(G4_SEED_BINDING, "Pass", <<115, 101, 101, 100, 32, 98, 105, 110, 100, 105, 110, 103, 32, 112, 114, 101, 115, 101, 114, 118, 101, 100>> (* "seed binding preserved" *)),
          GateResult(G6_ORGASYSTEM_SHAPE, "Pass",
                     Dec(restored) \o <<32, 102, 105, 108, 101, 115, 44, 32, 115, 104, 97, 112, 101, 32, 112, 114, 101, 115, 101, 114, 118, 101, 100>> (* " files, shape preserved" *))>>,
        now)

\* the receipt carried by the error when a hash differs inside the loop
UnfurlFailedReceipt(seed, pack_hash, rel_path, now) ==
    AuditReceipt_new(<<117, 110, 102, 117, 114, 108>> (* "unfurl" *), seed.fingerprint, Some(pack_hash),
        <<GateResult(G3_PINNING, "Fail", <<104, 97, 115, 104, 32, 109, 105, 115, 109, 97, 116, 99, 104, 32, 100, 117, 114, 105, 110, 103, 32, 117, 110, 102, 117, 114, 108, 58, 32>> (* "hash mismatch during unfurl: " *) \o rel_path)>>,
        now)

UnfurlRestored(loop, pack_dir, seed, pack_hash, now) ==
    IF loop.err = "Io" THEN [fs |-> loop.fs, res |-> Err("Io")]
    ELSE IF loop.err = "Mismatch"
    THEN [fs |-> loop.fs,
          res |-> ErrReason("VerificationFailed",
                      receipt_to_json(UnfurlFailedReceipt(seed, pack_hash, loop.at, now)))]
    ELSE Written(fs_write(loop.fs, JoinPath(pack_dir, S_unfurl_receipt_json),
                          receipt_to_json(UnfurlReceipt(seed, pack_hash, loop.restored, now))),
                 UnfurlReceipt(seed, pack_hash, loop.restored, now))

UnfurlInto(made, pack_dir, target_dir, seed, manifest, now) ==
    IF ~made.ok THEN [fs |-> made.fs, res |-> Err("Io")]
    ELSE UnfurlRestored(UnfurlLoop(made.fs, JoinPath(pack_dir, S_data), target_dir,
                                   manifest.files, BTreeKeys(manifest.files), 0),
                        pack_dir, seed, manifest.pack_hash, now)

\* the manifest is read a second time after the verification
UnfurlRead(F, pack_dir, target_dir, seed, now, read) ==
    IF ~read.ok THEN [fs |-> F, res |-> read]
    ELSE UnfurlInto(create_dir_all(F, target_dir), pack_dir, target_dir, seed, read.v, now)

\* unfurl_pack as it would be without the test of verify_receipt.passed
UnfurlVerified_unchecked(F, pack_dir, target_dir, seed, now, verify_receipt) ==
    IF ~verify_receipt.ok THEN [fs |-> F, res |-> verify_receipt]
    ELSE UnfurlRead(F, pack_dir, target_dir, seed, now, ReadManifest(F, pack_dir))

\* what unfurl_pack does with the receipt of its call of verify_pack
UnfurlVerified(F, pack_dir, target_dir, seed, now, verify_receipt) ==
    IF ~verify_receipt.ok THEN [fs |-> F, res |-> verify_receipt]
    ELSE IF ~verify_receipt.v.passed
    THEN [fs |-> F,
          res |-> ErrReason("VerificationFailed",
                            <<112, 97, 99, 107, 32, 118, 101, 114, 105, 102, 105, 99, 97, 116, 105, 111, 110, 32, 102, 97, 105, 108, 101, 100, 59, 32, 114, 101, 102, 117, 115, 105, 110, 103, 32, 116, 111, 32, 117, 110, 102, 117, 114, 108>> (* "pack verification failed; refusing to unfurl" *))]
    ELSE UnfurlRead(F, pack_dir, target_dir, seed, now, ReadManifest(F, pack_dir))

unfurl_pack(F, pack_dir, target_dir, seed, now) ==
    UnfurlVerified(F, pack_dir, target_dir, seed, now, verify_pack(F, pack_dir, seed, now))

(***************************************************************************)
(* verify_shape_equivalence.                                               *)
(***************************************************************************)
\* the closure collect over a walk: relative path -> content digest; a later
\* walk entry with the same normalised path replaces an earlier one
CollectWalk(F, root, walk) ==
    [p \in {NormalizeRel(walk[i]) : i \in 1..Len(walk)} |->
        compute_sha256(F.files[JoinPath(root,
            walk[CHOOSE i \in 1..Len(walk) :
                    /\ NormalizeRel(walk[i]) = p
                    /\ \A j \in (i + 1)..Len(walk) : NormalizeRel(walk[j]) # p])])]

CollectShape(F, root) == CollectWalk(F, root, WalkFiles(F, root))

verify_shape_equivalence(F, dir_a, dir_b) ==
    IF ~PathExists(F, dir_a) \/ ~PathExists(F, dir_b) THEN Err("Walk")
    ELSE Ok(CollectShape(F, dir_a) = CollectShape(F, dir_b))

(***************************************************************************)
(* The CPACK frame: a 48-byte header followed by the compressed payload.   *)
(***************************************************************************)
CPACK_MAGIC == <<67, 80, 67, 75>> (* "CPCK" *)
CPACK_VERSION == 1
COMPRESS_ZSTD == 1
HEADER_SIZE == 48

CpackHeader(version, compression_method, payload_sha256, compressed_size) ==
    [version |-> version, compression_method |-> compression_method,
     payload_sha256 |-> payload_sha256, compressed_size |-> compressed_size]

CpackHeader_to_bytes(h) ==
    CPACK_MAGIC \o <<h.version, h.compression_method>> \o <<0, 0>>
        \o h.payload_sha256 \o ToLe(h.compressed_size, 8)

\* from_bytes as it would be if the compression method were checked before
\* the version
CpackHeader_from_bytes_methodfirst(data) ==
    IF Len(data) < HEADER_SIZE THEN ErrReason("HeaderTooShort", <<Len(data), HEADER_SIZE>>)
    ELSE IF Slice(data, 0, 4) # CPACK_MAGIC THEN Err("BadMagic")
    ELSE IF data[6] # COMPRESS_ZSTD THEN ErrReason("UnsupportedCompression", <<data[6]>>)
    ELSE IF data[5] # CPACK_VERSION THEN ErrReason("UnsupportedVersion", <<data[5]>>)
    ELSE Ok(CpackHeader(data[5], data[6], Slice(data, 8, 40),
                        FromLe(Slice(data, 40, 48))))

\* data[6] and data[7], the reserved bytes, are not read; the reason of an
\* error holds the fields of the FrameError variant
CpackHeader_from_bytes(data) ==
    IF Len(data) < HEADER_SIZE THEN ErrReason("HeaderTooShort", <<Len(data), HEADER_SIZE>>)
    ELSE IF Slice(data, 0, 4) # CPACK_MAGIC THEN Err("BadMagic")
    ELSE IF data[5] # CPACK_VERSION THEN ErrReason("UnsupportedVersion", <<data[5]>>)
    ELSE IF data[6] # COMPRESS_ZSTD THEN ErrReason("UnsupportedCompression", <<data[6]>>)
    ELSE Ok(CpackHeader(data[5], data[6], Slice(data, 8, 40),
                        FromLe(Slice(data, 40, 48))))

\* one file of the payload as it would be with a u32 content length
EncodeFile_u32(path, content) ==
    ToLe(Len(path), 4) \o path \o ToLe(Len(content), 4) \o content

\* one turn of the loop of encode_payload
EncodeFile(path, content) ==
    ToLe(Len(path), 4) \o path \o ToLe(Len(content), 8) \o content

RECURSIVE EncodeFiles(_)
EncodeFiles(files) ==
    IF Len(files) = 0 THEN << >>
    ELSE EncodeFile(Head(files).path, Head(files).content) \o EncodeFiles(Tail(files))

\* files: a sequence of [path, content], sorted by the caller
encode_payload(manifest_json, files) ==
    ToLe(Len(manifest_json), 4) \o manifest_json
        \o ToLe(Len(files), 4) \o EncodeFiles(files)

\* String::from_utf8 on the bytes of a path.  The model's paths are ASCII;
\* of the other bytes it builds only 0xFF, which no UTF-8 text contains.
IsUtf8(s) == \A i \in 1..Len(s) : s[i] < 128

RECURSIVE DecodeFiles(_, _, _, _)
RECURSIVE DecodePath(_, _, _, _, _)
RECURSIVE DecodeContent(_, _, _, _, _, _)
\* the loop as it would be if the end of the data at a file boundary ended it
DecodeFiles_lenient(data, pos, left, files) ==
    IF left = 0 THEN Ok(files)
    ELSE IF Len(data) = pos THEN Ok(files)
    ELSE IF Len(data) < pos + 4 THEN Err("PayloadTruncated")
    ELSE DecodePath(data, pos + 4, FromLe(Slice(data, pos, pos + 4)), left, files)

\* the end of a turn as it would be if the file were put in front of the list
DecodeContent_reversed(data, pos, clen, path, left, files) ==
    IF Len(data) < pos + clen THEN Err("PayloadTruncated")
    ELSE DecodeFiles(data, pos + clen, left - 1,
                     <<[path |-> path, content |-> Slice(data, pos, pos + clen)]>>
                         \o files)

\* the loop of decode_payload with left turns to go, reading at pos
DecodeFiles(data, pos, left, files) ==
    IF left = 0 THEN Ok(files)
    ELSE IF Len(data) < pos + 4 THEN Err("PayloadTruncated")
    ELSE DecodePath(data, pos + 4, FromLe(Slice(data, pos, pos + 4)), left, files)

DecodePath(data, pos, plen, left, files) ==
    IF Len(data) < pos + plen THEN Err("PayloadTruncated")
    ELSE IF ~IsUtf8(Slice(data, pos, pos + plen)) THEN Err("InvalidUtf8Path")
    ELSE IF Len(data) < pos + plen + 8 THEN Err("PayloadTruncated")
    ELSE DecodeContent(data, pos + plen + 8,
                       FromLe(Slice(data, pos + plen, pos + plen + 8)),
                       Slice(data, pos, pos + plen), left, files)

DecodeContent(data, pos, clen, path, left, files) ==
    IF Len(data) < pos + clen THEN Err("PayloadTruncated")
    ELSE DecodeFiles(data, pos + clen, left - 1,
                     Append(files, [path |-> path,
                                    content |-> Slice(data, pos, pos + clen)]))

DecodeCounted(manifest_json, files) ==
    IF ~files.ok THEN files
    ELSE Ok([manifest_json |-> manifest_json, files |-> files.v])

DecodeManifest(data, mlen) ==
    IF Len(data) < 4 + mlen THEN Err("PayloadTruncated")
    ELSE IF Len(data) < 4 + mlen + 4 THEN Err("PayloadTruncated")
    ELSE DecodeCounted(Slice(data, 4, 4 + mlen),
                       DecodeFiles(data, 8 + mlen,
                                   FromLe(Slice(data, 4 + mlen, 8 + mlen)), << >>))

decode_payload(data) ==
    IF Len(data) < 4 THEN Err("PayloadTruncated")
    ELSE DecodeManifest(data, FromLe(Slice(data, 0, 4)))

(***************************************************************************)
(* zstd (the zstd crate), a lossless codec kept opaque: a frame is the     *)
(* format's magic number followed by the content, and bytes that do not    *)
(* begin with the magic number do not decode.                              *)
(***************************************************************************)
ZSTD_MAGIC == <<40, 181, 47, 253>>

zstd_encode_all(data, level) == ZSTD_MAGIC \o data

zstd_decode_all(data) ==
    IF StartsWith(data, ZSTD_MAGIC) THEN Ok(Slice(data, 4, Len(data)))
    ELSE Err("Io")

(***************************************************************************)
(* compress_dpack.                                                         *)
(***************************************************************************)
\* header.to_bytes() followed by the compressed bytes
CpackFrame(payload_hash, compressed) ==
    CpackHeader_to_bytes(CpackHeader(CPACK_VERSION, COMPRESS_ZSTD, payload_hash,
                                     Len(compressed)))
        \o compressed

\* the end of compress_dpack as it would be if the frame recorded the name
\* of its file, as a gzip member does
CompressHashed_named(F, output_path, payload_hash, compressed) ==
    Written(fs_write(F, output_path,
                     CpackFrame(payload_hash, compressed \o output_path)),
            hex_encode(payload_hash))

\* the end of compress_dpack: the header, the write, the digest in hex
CompressHashed(F, output_path, payload_hash, compressed) ==
    Written(fs_write(F, output_path, CpackFrame(payload_hash, compressed)),
            hex_encode(payload_hash))

CompressPayload(F, output_path, payload) ==
    CompressHashed(F, output_path, sha256_bytes(payload), zstd_encode_all(payload, 3))

\* the BTreeMap files as a sorted list: keys are the normalised relative
\* paths, and a later walk entry replaces an earlier one with the same key
CompressSorted(F, data_dir, walk, keys) ==
    [k \in 1..Len(keys) |->
        [path |-> keys[k],
         content |-> F.files[JoinPath(data_dir,
             walk[CHOOSE i \in 1..Len(walk) :
                     /\ NormalizeRel(walk[i]) = keys[k]
                     /\ \A j \in (i + 1)..Len(walk) : NormalizeRel(walk[j]) # keys[k]])]]]

\* the list as it would be if the files were kept in the order of the walk
CompressWalk_unsorted(F, data_dir, walk) ==
    [k \in 1..Len(walk) |->
        [path |-> NormalizeRel(walk[k]), content |-> F.files[JoinPath(data_dir, walk[k])]]]

CompressWalk(F, data_dir, walk) ==
    CompressSorted(F, data_dir, walk,
                   SortedSeq({NormalizeRel(walk[i]) : i \in 1..Len(walk)}))

\* the files below data/, none when data/ does not exist
CompressFiles(F, data_dir) ==
    IF ~PathExists(F, data_dir) THEN << >>
    ELSE CompressWalk(F, data_dir, WalkFiles(F, data_dir))

CompressParsed(F, dpack_dir, output_path, manifest) ==
    IF ~manifest.ok THEN [fs |-> F, res |-> Err("Json")]
    ELSE CompressPayload(F, output_path,
                         encode_payload(manifest_to_json(FALSE, manifest.v),
                                        CompressFiles(F, JoinPath(dpack_dir, S_data))))

compress_dpack(F, dpack_dir, output_path) ==
    IF ~IsFile(F, JoinPath(dpack_dir, S_manifest_json))
    THEN [fs |-> F, res |-> Err("Io")]
    ELSE CompressParsed(F, dpack_dir, output_path,
                        manifest_from_json(F.files[JoinPath(dpack_dir, S_manifest_json)]))

(***************************************************************************)
(* decompress_cpack.                                                       *)
(***************************************************************************)
\* the loop over the decoded files: create_dir_all(parent), then write
RECURSIVE DecompressLoop(_, _, _)
DecompressNext(wrote, data_dir, files) ==
    IF ~wrote.ok THEN [ok |-> FALSE, fs |-> wrote.fs]
    ELSE DecompressLoop(wrote.fs, data_dir, files)

DecompressLoop(F, data_dir, files) ==
    IF Len(files) = 0 THEN [ok |-> TRUE, fs |-> F]
    ELSE DecompressNext(write_under(F, JoinPath(data_dir, Head(files).path),
                                    Head(files).content),
                        data_dir, Tail(files))

DecompressFiles(wrote, data_dir, files, actual_hash) ==
    IF ~wrote.ok THEN [fs |-> wrote.fs, res |-> Err("Io")]
    ELSE Written(DecompressLoop(wrote.fs, data_dir, files), hex_encode(actual_hash))

DecompressWrite(made, output_dir, manifest_json, files, actual_hash) ==
    IF ~made.ok THEN [fs |-> made.fs, res |-> Err("Io")]
    ELSE DecompressFiles(fs_write(made.fs, JoinPath(output_dir, S_manifest_json),
                                  manifest_json),
                         JoinPath(output_dir, S_data), files, actual_hash)

DecompressDecoded(F, output_dir, actual_hash, decoded) ==
    IF ~decoded.ok THEN [fs |-> F, res |-> decoded]
    ELSE DecompressWrite(create_dir_all(F, output_dir), output_dir,
                         decoded.v.manifest_json, decoded.v.files, actual_hash)

\* decompress_cpack as it would be if the output directory were made before
\* the digest is compared
DecompressHashed_early(F, output_dir, header, payload, actual_hash) ==
    IF actual_hash # header.payload_sha256
    THEN [fs |-> create_dir_all(F, output_dir).fs, res |-> Err("IntegrityMismatch")]
    ELSE DecompressDecoded(F, output_dir, actual_hash, decode_payload(payload))

\* the integrity check, then decode_payload
DecompressHashed(F, output_dir, header, payload, actual_hash) ==
    IF actual_hash # header.payload_sha256
    THEN [fs |-> F, res |-> Err("IntegrityMismatch")]
    ELSE DecompressDecoded(F, output_dir, actual_hash, decode_payload(payload))

DecompressPayload(F, output_dir, header, payload) ==
    IF ~payload.ok THEN [fs |-> F, res |-> Err("Io")]
    ELSE DecompressHashed(F, output_dir, header, payload.v, sha256_bytes(payload.v))

DecompressHeader(F, output_dir, header, compressed) ==
    IF ~header.ok THEN [fs |-> F, res |-> header]
    ELSE IF Len(compressed) # header.v.compressed_size
    THEN [fs |-> F, res |-> Err("PayloadTruncated")]
    ELSE DecompressPayload(F, output_dir, header.v, zstd_decode_all(compressed))

DecompressData(F, output_dir, cpack_data) ==
    IF Len(cpack_data) < HEADER_SIZE THEN [fs |-> F, res |-> Err("HeaderTooShort")]
    ELSE DecompressHeader(F, output_dir, CpackHeader_from_bytes(cpack_data),
                          Slice(cpack_data, HEADER_SIZE, Len(cpack_data)))

decompress_cpack(F, cpack_path, output_dir) ==
    IF ~IsFile(F, cpack_path) THEN [fs |-> F, res |-> Err("Io")]
    ELSE DecompressData(F, output_dir, F.files[cpack_path])

(***************************************************************************)
(* The world the operations run in.                                        *)
(*   fs    the file system                                                 *)
(*   ret   the last call: its name, its arguments and what it returned     *)
(*   prov  history of each directory or file the runs produce: which call  *)
(*         wrote it, with which arguments, and how often anything else     *)
(*         has touched it since                                            *)
(*   clock the wall clock                                                  *)
(***************************************************************************)
VARIABLES fs, ret, prov, clock

vars == <<fs, ret, prov, clock>>

MaxRepoFiles == 2
MaxTamper == 1
MaxClock == 2

RepoRoot == <<47, 114>> (* "/r" *)
P1 == <<47, 112, 49>> (* "/p1" *)
P2 == <<47, 112, 50>> (* "/p2" *)
TargetDir == <<47, 116>> (* "/t" *)
CpackA == <<47, 99, 49>> (* "/c1" *)
CpackB == <<47, 99, 50>> (* "/c2" *)
OutDir == <<47, 111>> (* "/o" *)

\* the files a repository may hold: a, d\b (one file name holding a
\* backslash) and .git/c, each with its own content
RepoUniverse ==
    (<<97>> (* "a" *) :> <<120>> (* "x" *)) @@ (<<100, 92, 98>> (* "d\b" *) :> <<121, 122>> (* "yz" *)) @@ (<<46, 103, 105, 116, 47, 99>> (* ".git/c" *) :> <<119, 119, 119>> (* "www" *))

TamperContent == <<101, 118, 105, 108>> (* "evil" *)

RepoTrees ==
    {[p \in S |-> RepoUniverse[p]] :
        S \in {T \in SUBSET DOMAIN RepoUniverse : Cardinality(T) <= MaxRepoFiles}}

Seeds == {Seed_load(<<115, 101, 101, 100, 45, 49>> (* "seed-1" *)), Seed_load(<<115, 101, 101, 100, 45, 50>> (* "seed-2" *))}

\* no policy (the default applies), a policy that allows everything, and
\* one that includes only what lies under d/
Policies ==
    {None,
     Some([include |-> << >>, exclude |-> << >>]),
     Some([include |-> <<<<100, 47, 42, 42>> (* "d/**" *)>>, exclude |-> << >>])}

\* chrono::Utc::now().to_rfc3339() at clock value c
Timestamp(c) == <<50, 48, 50, 54, 45, 48, 49, 45, 48, 49, 84, 48, 48, 58, 48, 48, 58, 48>> (* "2026-01-01T00:00:0" *) \o Dec(c) \o <<43, 48, 48, 58, 48, 48>> (* "+00:00" *)

RootFs == [files |-> << >>, dirs |-> {<< >>}]

RECURSIVE MakeTree(_, _, _, _)
MakeTree(F, root, tree, ks) ==
    IF Len(ks) = 0 THEN F
    ELSE MakeTree(write_under(F, JoinPath(root, Head(ks)), tree[Head(ks)]).fs,
                  root, tree, Tail(ks))

NoProv == [kind |-> "none"]
NoRet == [op |-> "init"]
EnvRet == [op |-> "env"]

InitRepo ==
    /\ \E tree \in RepoTrees :
          fs = MakeTree(create_dir_all(RootFs, RepoRoot).fs, RepoRoot, tree,
                        SortedSeq(DOMAIN tree))
    /\ ret = NoRet
    /\ prov = [d \in {P1, P2, TargetDir, CpackA, CpackB} |-> NoProv]
    /\ clock = 1

(***************************************************************************)
(* The calls.                                                              *)
(***************************************************************************)
PackDone(r, out, seed, policy) ==
    /\ fs' = r.fs
    /\ ret' = [op |-> "pack", dir |-> out, seed |-> seed, policy |-> policy, res |-> r.res]
    /\ prov' = [prov EXCEPT ![out] =
                   IF r.res.ok
                   THEN [kind |-> "pack", seed |-> seed, policy |-> policy,
                         at |-> clock, tampers |-> 0]
                   ELSE [kind |-> "other"]]
    /\ UNCHANGED clock

Pack(out, seed, policy) ==
    /\ ~PathExists(fs, out)
    /\ PackDone(pack_repo(fs, RepoRoot, out, seed, policy, Timestamp(clock)),
                out, seed, policy)

Verify(dir, seed) ==
    /\ ret' = [op |-> "verify", dir |-> dir, seed |-> seed,
               res |-> verify_pack(fs, dir, seed, Timestamp(clock))]
    /\ UNCHANGED <<fs, prov, clock>>

UnfurlDone(r, dir, target, seed) ==
    /\ fs' = r.fs
    /\ ret' = [op |-> "unfurl", dir |-> dir, target |-> target, seed |-> seed,
               res |-> r.res]
    /\ prov' = [prov EXCEPT ![target] =
                   IF r.fs = fs THEN @
                   ELSE IF r.res.ok /\ ~PathExists(fs, target)
                           /\ prov[dir].kind = "pack" /\ prov[dir].tampers = 0
                   THEN [kind |-> "unfurl", policy |-> prov[dir].policy]
                   ELSE [kind |-> "other"]]
    /\ UNCHANGED clock

Unfurl(dir, target, seed) ==
    UnfurlDone(unfurl_pack(fs, dir, target, seed, Timestamp(clock)), dir, target, seed)

ShapeEquivalence(dir_a, dir_b) ==
    /\ ret' = [op |-> "shape", a |-> dir_a, b |-> dir_b,
               res |-> verify_shape_equivalence(fs, dir_a, dir_b)]
    /\ UNCHANGED <<fs, prov, clock>>

Tick ==
    /\ clock < MaxClock
    /\ clock' = clock + 1
    /\ ret' = EnvRet
    /\ UNCHANGED <<fs, prov>>

(***************************************************************************)
(* What someone else does to a pack directory between the calls: change    *)
(* or remove a file under data/, remove them all, or rewrite a field of    *)
(* manifest.json.  Each counts one against MaxTamper.                      *)
(***************************************************************************)
CanTamper(dir) ==
    /\ prov[dir].kind = "pack"
    /\ prov[dir].tampers < MaxTamper

Tampered(dir, F) ==
    /\ fs' = F
    /\ prov' = [prov EXCEPT ![dir].tampers = @ + 1]
    /\ ret' = EnvRet
    /\ UNCHANGED clock

DataFiles(F, dir) ==
    {p \in DOMAIN F.files : StartsWith(p, JoinPath(dir, S_data) \o <<Slash>>)}

RemoveFiles(F, gone) ==
    [F EXCEPT !.files = [q \in (DOMAIN @) \ gone |-> @[q]]]

TamperData(dir) ==
    /\ CanTamper(dir)
    /\ \E p \in DataFiles(fs, dir) : Tampered(dir, fs_write(fs, p, TamperContent).fs)

DeleteData(dir) ==
    /\ CanTamper(dir)
    /\ \E p \in DataFiles(fs, dir) : Tampered(dir, RemoveFiles(fs, {p}))

WipeData(dir) ==
    /\ CanTamper(dir)
    /\ Cardinality(DataFiles(fs, dir)) > 1
    /\ Tampered(dir, RemoveFiles(fs, DataFiles(fs, dir)))

UpperHex(s) == [i \in 1..Len(s) |-> IF s[i] >= 97 /\ s[i] <= 102 THEN s[i] - 32 ELSE s[i]]

\* the manifest with one field rewritten
Rewritten(m, field) ==
    CASE field = "schema_version" -> [m EXCEPT !.schema_version = <<50, 46, 48>> (* "2.0" *)]
      [] field = "pack_hash" -> [m EXCEPT !.pack_hash = compute_sha256(TamperContent)]
      [] field = "fingerprint" ->
             [m EXCEPT !.root_2i_seed_fingerprint = UpperHex(@)]
      [] OTHER ->
             [m EXCEPT !.files = [p \in DOMAIN @ |->
                                     FileEntry(compute_sha256(TamperContent), @[p].size)]]

RewriteManifest(dir, m, changed) ==
    /\ changed # m
    /\ Tampered(dir, fs_write(fs, JoinPath(dir, S_manifest_json),
                              manifest_to_json(TRUE, changed)).fs)

TamperManifestRead(dir, read) ==
    /\ read.ok
    /\ \E field \in {"schema_version", "pack_hash", "fingerprint", "files"} :
          RewriteManifest(dir, read.v, Rewritten(read.v, field))

TamperManifest(dir) ==
    /\ CanTamper(dir)
    /\ TamperManifestRead(dir, ReadManifest(fs, dir))

(***************************************************************************)
(* One pack directory: pack, tamper, verify, unfurl, compare shapes.       *)
(***************************************************************************)
NextDpack ==
    \/ \E seed \in Seeds, policy \in Policies : Pack(P1, seed, policy)
    \/ \E seed \in Seeds : Verify(P1, seed)
    \/ \E seed \in Seeds : Unfurl(P1, TargetDir, seed)
    \/ ShapeEquivalence(RepoRoot, TargetDir)
    \/ TamperData(P1)
    \/ DeleteData(P1)
    \/ WipeData(P1)
    \/ TamperManifest(P1)

SpecDpack == InitRepo /\ [][NextDpack]_vars

(***************************************************************************)
(* Two pack directories filled at different times.                         *)
(***************************************************************************)
NextRepack ==
    \/ \E out \in {P1, P2}, seed \in Seeds, policy \in Policies : Pack(out, seed, policy)
    \/ Tick

SpecRepack == InitRepo /\ [][NextRepack]_vars

(***************************************************************************)
(* The calls of the codec.                                                 *)
(***************************************************************************)
\* gen: how often the pack directory had been touched when it was compressed
CompressDone(r, dir, out) ==
    /\ fs' = r.fs
    /\ ret' = [op |-> "compress", dir |-> dir, path |-> out, res |-> r.res]
    /\ prov' = [prov EXCEPT ![out] =
                   IF r.res.ok
                   THEN [kind |-> "cpack", src |-> dir, gen |-> prov[dir].tampers,
                         hash |-> r.res.v]
                   ELSE IF r.fs = fs THEN @
                   ELSE [kind |-> "other"]]
    /\ UNCHANGED clock

Compress(dir, out) ==
    /\ prov[dir].kind = "pack"
    /\ CompressDone(compress_dpack(fs, dir, out), dir, out)

\* fresh: the output directory did not exist before the call
DecompressDone(r, path, out) ==
    /\ fs' = r.fs
    /\ ret' = [op |-> "decompress", path |-> path, out |-> out,
               fresh |-> ~PathExists(fs, out), res |-> r.res]
    /\ UNCHANGED <<prov, clock>>

Decompress(path, out) ==
    DecompressDone(decompress_cpack(fs, path, out), path, out)

(***************************************************************************)
(* What someone else does to a CPACK file that compress_dpack has written: *)
(* change one byte, cut the file short, or replace it by a frame whose     *)
(* header fits a payload that does not decode.                             *)
(***************************************************************************)
Corrupted(path, how, content) ==
    /\ fs' = fs_write(fs, path, content).fs
    /\ prov' = [prov EXCEPT ![path] = how]
    /\ ret' = EnvRet
    /\ UNCHANGED clock

\* the offsets at which a byte is changed: both ends of the magic number,
\* version, method, the two reserved bytes, both ends of the digest and of
\* the length, and in the compressed region its first four bytes, the byte
\* after them and the last one
FlipOffsets(data) ==
    {o \in {0, 3, 4, 5, 6, 7, 8, 39, 40, 47, 48, 51, 52, Len(data) - 1} : o < Len(data)}

FlipDeltas == {1, 128}

FlipByte(path) ==
    /\ prov[path].kind = "cpack"
    /\ \E o \in FlipOffsets(fs.files[path]), d \in FlipDeltas :
          Corrupted(path, [kind |-> "flipped", offset |-> o],
                    [fs.files[path] EXCEPT ![o + 1] = (@ + d) % 256])

CutLengths(data) == {10, HEADER_SIZE, Len(data) - 1}

Truncate(path) ==
    /\ prov[path].kind = "cpack"
    /\ \E n \in CutLengths(fs.files[path]) :
          Corrupted(path, [kind |-> "cut", len |-> n], SubSeq(fs.files[path], 1, n))

\* the payload without its last byte and, when it holds a file, with 0xFF as
\* the first byte of the first path
ForgedPayloads(payload, mlen) ==
    {SubSeq(payload, 1, Len(payload) - 1)}
        \cup (IF FromLe(Slice(payload, 4 + mlen, 8 + mlen)) = 0 THEN {}
              ELSE {[payload EXCEPT ![4 + mlen + 4 + 4 + 1] = 255]})

ForgeFrom(path, payload) ==
    \E forged \in ForgedPayloads(payload, FromLe(Slice(payload, 0, 4))) :
        Corrupted(path, [kind |-> "forged"],
                  CpackFrame(sha256_bytes(forged), zstd_encode_all(forged, 3)))

Forge(path) ==
    /\ prov[path].kind = "cpack"
    /\ ForgeFrom(path, zstd_decode_all(Slice(fs.files[path], HEADER_SIZE,
                                             Len(fs.files[path]))).v)

SeedOne == Seed_load(<<115, 101, 101, 100, 45, 49>> (* "seed-1" *))

(***************************************************************************)
(* One pack directory compressed into one CPACK file, which is damaged or  *)
(* not and then decompressed.                                              *)
(***************************************************************************)
NextCpack ==
    \/ \E policy \in Policies : Pack(P1, SeedOne, policy)
    \/ Compress(P1, CpackA)
    \/ FlipByte(CpackA)
    \/ Truncate(CpackA)
    \/ Forge(CpackA)
    \/ Decompress(CpackA, OutDir)

SpecCpack == InitRepo /\ [][NextCpack]_vars

(***************************************************************************)
(* One pack directory, touched or not, compressed into two CPACK files.    *)
(***************************************************************************)
NextRecompress ==
    \/ \E policy \in Policies : Pack(P1, SeedOne, policy)
    \/ TamperData(P1)
    \/ TamperManifest(P1)
    \/ \E out \in {CpackA, CpackB} : Compress(P1, out)

SpecRecompress == InitRepo /\ [][NextRecompress]_vars

(***************************************************************************)
(* Replication gates and receipts (replication_core/src/gate.rs).          *)
(***************************************************************************)
RGateStatus == {"Pass", "Fail"}

ReplicationGateResult(gate, status, detail) ==
    [gate |-> gate, status |-> status, detail |-> detail]

RG0_POLICY == <<82, 71, 48, 95, 80, 79, 76, 73, 67, 89>> (* "RG0_POLICY" *)
RG1_SEED_BINDING == <<82, 71, 49, 95, 83, 69, 69, 68, 95, 66, 73, 78, 68, 73, 78, 71>> (* "RG1_SEED_BINDING" *)
RG2_SHAPE_EQUIVALENCE == <<82, 71, 50, 95, 83, 72, 65, 80, 69, 95, 69, 81, 85, 73, 86, 65, 76, 69, 78, 67, 69>> (* "RG2_SHAPE_EQUIVALENCE" *)
RG3_CONTENT_EQUIVALENCE == <<82, 71, 51, 95, 67, 79, 78, 84, 69, 78, 84, 95, 69, 81, 85, 73, 86, 65, 76, 69, 78, 67, 69>> (* "RG3_CONTENT_EQUIVALENCE" *)
RG5_RECEIPT == <<82, 71, 53, 95, 82, 69, 67, 69, 73, 80, 84>> (* "RG5_RECEIPT" *)

\* ReplicationReceipt::new; now is what chrono::Utc::now().to_rfc3339() returns
ReplicationReceipt_new(operation, mode, fingerprint, source_pack_hash, target_pack_hash, gates, now) ==
    [operation |-> operation,
     mode |-> mode,
     timestamp |-> now,
     root_2i_seed_fingerprint |-> fingerprint,
     source_pack_hash |-> source_pack_hash,
     target_pack_hash |-> target_pack_hash,
     gates |-> gates,
     passed |-> \A i \in 1..Len(gates) : gates[i].status # "Fail"]

JOption(o) == IF o.some THEN JString(o.v) ELSE <<110, 117, 108, 108>> (* "null" *)

JBool(b) == IF b THEN <<116, 114, 117, 101>> (* "true" *) ELSE <<102, 97, 108, 115, 101>> (* "false" *)

RGateJson(g) ==
    JObject(TRUE, 2, <<[k |-> <<103, 97, 116, 101>> (* "gate" *), v |-> JString(g.gate)],
                       [k |-> <<115, 116, 97, 116, 117, 115>> (* "status" *), v |-> JString(GateStatusJson(g.status))],
                       [k |-> <<100, 101, 116, 97, 105, 108>> (* "detail" *), v |-> JString(g.detail)]>>)

\* ReplicationReceipt::to_json: serde_json::to_string_pretty
ReplicationReceipt_to_json(r) ==
    JObject(TRUE, 0,
        <<[k |-> <<111, 112, 101, 114, 97, 116, 105, 111, 110>> (* "operation" *), v |-> JString(r.operation)],
          [k |-> <<109, 111, 100, 101>> (* "mode" *), v |-> JString(r.mode)],
          [k |-> <<116, 105, 109, 101, 115, 116, 97, 109, 112>> (* "timestamp" *), v |-> JString(r.timestamp)],
          [k |-> <<114, 111, 111, 116, 95, 50, 105, 95, 115, 101, 101, 100, 95, 102, 105, 110, 103, 101, 114, 112, 114, 105, 110, 116>> (* "root_2i_seed_fingerprint" *), v |-> JString(r.root_2i_seed_fingerprint)],
          [k |-> <<115, 111, 117, 114, 99, 101, 95, 112, 97, 99, 107, 95, 104, 97, 115, 104>> (* "source_pack_hash" *), v |-> JOption(r.source_pack_hash)],
          [k |-> <<116, 97, 114, 103, 101, 116, 95, 112, 97, 99, 107, 95, 104, 97, 115, 104>> (* "target_pack_hash" *), v |-> JOption(r.target_pack_hash)],
          [k |-> <<103, 97, 116, 101, 115>> (* "gates" *), v |-> JArray(TRUE, 1, [i \in 1..Len(r.gates) |-> RGateJson(r.gates[i])])],
          [k |-> <<112, 97, 115, 115, 101, 100>> (* "passed" *), v |-> JBool(r.passed)]>>)

(***************************************************************************)
(* The two receipt constructors on their own: a list of gates is drawn,    *)
(* then a receipt is made of it.                                           *)
(***************************************************************************)
MaxGates == 4

GateLists(statuses) ==
    UNION {[1..n -> {GateResult(G0_SCHEMA, s, << >>) : s \in statuses}] : n \in 0..MaxGates}

InitReceipt ==
    /\ fs = RootFs
    /\ \/ \E gates \in GateLists(GateStatus) : ret = [op |-> "gates", of |-> "audit", gates |-> gates]
       \/ \E gates \in GateLists(RGateStatus) :
             ret = [op |-> "gates", of |-> "replication", gates |-> gates]
    /\ prov = [d \in {P1, P2, TargetDir, CpackA, CpackB} |-> NoProv]
    /\ clock = 1

AuditNew ==
    /\ ret.op = "gates" /\ ret.of = "audit"
    /\ ret' = [op |-> "receipt", of |-> "audit",
               receipt |-> AuditReceipt_new(<<118, 101, 114, 105, 102, 121>> (* "verify" *), SeedOne.fingerprint, None,
                                            ret.gates, Timestamp(clock))]
    /\ UNCHANGED <<fs, prov, clock>>

ReplicationNew ==
    /\ ret.op = "gates" /\ ret.of = "replication"
    /\ ret' = [op |-> "receipt", of |-> "replication",
               receipt |-> ReplicationReceipt_new(<<114, 101, 112, 108, 105, 99, 97, 116, 101>> (* "replicate" *), <<82, 48, 95, 76, 79, 67, 65, 76, 95, 67, 76, 79, 78, 69>> (* "R0_LOCAL_CLONE" *),
                               SeedOne.fingerprint, None, None, ret.gates,
                               Timestamp(clock))]
    /\ UNCHANGED <<fs, prov, clock>>

NextReceipt == AuditNew \/ ReplicationNew

SpecReceipt == InitReceipt /\ [][NextReceipt]_vars

(***************************************************************************)
(* replicate_local and replicate_rootball                                  *)
(* (replication_core/src/replicate.rs).  An error of pack_repo,            *)
(* unfurl_pack or verify_shape_equivalence becomes ReplicationError::Pack. *)
(* tempfile::tempdir() makes a directory of a fresh name below the         *)
(* system's temporary directory, and the TempDir removes it with all it    *)
(* holds when the function returns.                                        *)
(***************************************************************************)
S_replication_receipt_json == <<114, 101, 112, 108, 105, 99, 97, 116, 105, 111, 110, 95, 114, 101, 99, 101, 105, 112, 116, 46, 106, 115, 111, 110>> (* "replication_receipt.json" *)

TmpPack == <<47, 116, 109, 112, 47, 49>> (* "/tmp/1" *)
TmpVerify == <<47, 116, 109, 112, 47, 50>> (* "/tmp/2" *)

\* std::fs::remove_dir_all as TempDir::drop calls it
remove_dir_all(F, dir) ==
    [files |-> [p \in {q \in DOMAIN F.files : ~StartsWith(q, dir \o <<Slash>>)} |->
                   F.files[p]],
     dirs |-> {d \in F.dirs : d # dir /\ ~StartsWith(d, dir \o <<Slash>>)}]

DropTemps(r) ==
    [fs |-> remove_dir_all(remove_dir_all(r.fs, TmpVerify), TmpPack), res |-> r.res]

\* From<PackError> for ReplicationError; a panic stays a panic
PackErr(res) == IF res.err = "Panic" THEN res ELSE Err("Pack")

\* RG0_POLICY and RG1_SEED_BINDING, pushed before anything is done
ReplicateGates(seed) ==
    <<ReplicationGateResult(RG0_POLICY, "Pass", <<112, 111, 108, 105, 99, 121, 32, 97, 112, 112, 108, 105, 101, 100>> (* "policy applied" *)),
      ReplicationGateResult(RG1_SEED_BINDING, "Pass",
                            <<115, 101, 101, 100, 95, 102, 112, 61>> (* "seed_fp=" *) \o Prefix16(seed.fingerprint))>>

ShapeGate(shape_eq) ==
    ReplicationGateResult(RG2_SHAPE_EQUIVALENCE,
        IF shape_eq THEN "Pass" ELSE "Fail",
        IF shape_eq THEN <<116, 114, 101, 101, 32, 115, 104, 97, 112, 101, 115, 32, 105, 100, 101, 110, 116, 105, 99, 97, 108>> (* "tree shapes identical" *) ELSE <<116, 114, 101, 101, 32, 115, 104, 97, 112, 101, 32, 109, 105, 115, 109, 97, 116, 99, 104>> (* "tree shape mismatch" *))

ContentGate(content_eq) ==
    ReplicationGateResult(RG3_CONTENT_EQUIVALENCE,
        IF content_eq THEN "Pass" ELSE "Fail",
        IF content_eq THEN <<99, 111, 110, 116, 101, 110, 116, 32, 104, 97, 115, 104, 101, 115, 32, 105, 100, 101, 110, 116, 105, 99, 97, 108>> (* "content hashes identical" *) ELSE <<99, 111, 110, 116, 101, 110, 116, 32, 104, 97, 115, 104, 32, 109, 105, 115, 109, 97, 116, 99, 104>> (* "content hash mismatch" *))

ReceiptGate(detail) == ReplicationGateResult(RG5_RECEIPT, "Pass", detail)

\* the receipt is serialised and written into the directory, then returned
ReplicateFinish(F, dir, receipt) ==
    Written(fs_write(F, JoinPath(dir, S_replication_receipt_json),
                     ReplicationReceipt_to_json(receipt)),
            receipt)

\* RG3, RG5 and the receipt; target_pack_receipt.passed is not consulted and
\* a Fail of RG3 does not end the call
LocalRepacked(repacked, target_dir, seed, source_pack_hash, now) ==
    IF ~repacked.res.ok THEN [fs |-> repacked.fs, res |-> PackErr(repacked.res)]
    ELSE ReplicateFinish(repacked.fs, target_dir,
             ReplicationReceipt_new(<<114, 101, 112, 108, 105, 99, 97, 116, 101>> (* "replicate" *), <<82, 48, 95, 76, 79, 67, 65, 76, 95, 67, 76, 79, 78, 69>> (* "R0_LOCAL_CLONE" *), seed.fingerprint,
                 source_pack_hash, repacked.res.v.pack_hash,
                 ReplicateGates(seed)
                 \o <<ShapeGate(TRUE),
                      ContentGate(source_pack_hash = repacked.res.v.pack_hash),
                      ReceiptGate(<<114, 101, 112, 108, 105, 99, 97, 116, 105, 111, 110, 32, 114, 101, 99, 101, 105, 112, 116, 32, 101, 109, 105, 116, 116, 101, 100>> (* "replication receipt emitted" *))>>,
                 now))

LocalVerifyTemp(made, target_dir, seed, policy, source_pack_hash, now) ==
    IF ~made.ok THEN [fs |-> made.fs, res |-> Err("Io")]
    ELSE LocalRepacked(pack_repo(made.fs, target_dir, TmpVerify, seed, policy, now),
                       target_dir, seed, source_pack_hash, now)

\* the error of a shape mismatch: the receipt so far, as JSON, in the reason
LocalShapeFailed(seed, source_pack_hash, now) ==
    ErrReason("Failed",
        ReplicationReceipt_to_json(
            ReplicationReceipt_new(<<114, 101, 112, 108, 105, 99, 97, 116, 101>> (* "replicate" *), <<82, 48, 95, 76, 79, 67, 65, 76, 95, 67, 76, 79, 78, 69>> (* "R0_LOCAL_CLONE" *), seed.fingerprint,
                source_pack_hash, None,
                ReplicateGates(seed) \o <<ShapeGate(FALSE)>>, now)))

\* replicate_local as it would be if a shape mismatch did not end the call
LocalShape_lenient(F, target_dir, seed, policy, source_pack_hash, now, shape_eq) ==
    IF ~shape_eq.ok THEN [fs |-> F, res |-> PackErr(shape_eq)]
    ELSE IF ~shape_eq.v
    THEN ReplicateFinish(F, target_dir,
             ReplicationReceipt_new(<<114, 101, 112, 108, 105, 99, 97, 116, 101>> (* "replicate" *), <<82, 48, 95, 76, 79, 67, 65, 76, 95, 67, 76, 79, 78, 69>> (* "R0_LOCAL_CLONE" *), seed.fingerprint,
                 source_pack_hash, None,
                 ReplicateGates(seed)
                 \o <<ShapeGate(FALSE), ReceiptGate(<<114, 101, 112, 108, 105, 99, 97, 116, 105, 111, 110, 32, 114, 101, 99, 101, 105, 112, 116, 32, 101, 109, 105, 116, 116, 101, 100>> (* "replication receipt emitted" *))>>,
                 now))
    ELSE LocalVerifyTemp(create_dir_all(F, TmpVerify), target_dir, seed, policy,
                         source_pack_hash, now)

\* replicate_local as it would be if the receipt of a shape mismatch were
\* also written into the target
LocalShape_written(F, target_dir, seed, policy, source_pack_hash, now, shape_eq) ==
    IF ~shape_eq.ok THEN [fs |-> F, res |-> PackErr(shape_eq)]
    ELSE IF ~shape_eq.v
    THEN [fs |-> fs_write(F, JoinPath(target_dir, S_replication_receipt_json),
                          LocalShapeFailed(seed, source_pack_hash, now).reason).fs,
          res |-> LocalShapeFailed(seed, source_pack_hash, now)]
    ELSE LocalVerifyTemp(create_dir_all(F, TmpVerify), target_dir, seed, policy,
                         source_pack_hash, now)

\* RG2: a mismatch returns Failed before the second pack
LocalShape(F, target_dir, seed, policy, source_pack_hash, now, shape_eq) ==
    IF ~shape_eq.ok THEN [fs |-> F, res |-> PackErr(shape_eq)]
    ELSE IF ~shape_eq.v
    THEN [fs |-> F, res |-> LocalShapeFailed(seed, source_pack_hash, now)]
    ELSE LocalVerifyTemp(create_dir_all(F, TmpVerify), target_dir, seed, policy,
                         source_pack_hash, now)

LocalUnfurled(unfurled, repo_root, target_dir, seed, policy, source_pack_hash, now) ==
    IF ~unfurled.res.ok THEN [fs |-> unfurled.fs, res |-> PackErr(unfurled.res)]
    ELSE IF ~unfurled.res.v.passed
    THEN [fs |-> unfurled.fs, res |-> ErrReason("GateFailed", <<117, 110, 102, 117, 114, 108>> (* "unfurl" *))]
    ELSE LocalShape(unfurled.fs, target_dir, seed, policy, source_pack_hash, now,
                    verify_shape_equivalence(unfurled.fs, repo_root, target_dir))

LocalPacked(packed, repo_root, target_dir, seed, policy, now) ==
    IF ~packed.res.ok THEN [fs |-> packed.fs, res |-> PackErr(packed.res)]
    ELSE IF ~packed.res.v.passed
    THEN [fs |-> packed.fs, res |-> ErrReason("GateFailed", <<112, 97, 99, 107>> (* "pack" *))]
    ELSE LocalUnfurled(unfurl_pack(packed.fs, TmpPack, target_dir, seed, now),
                       repo_root, target_dir, seed, policy, packed.res.v.pack_hash, now)

LocalTemp(made, repo_root, target_dir, seed, policy, now) ==
    IF ~made.ok THEN [fs |-> made.fs, res |-> Err("Io")]
    ELSE LocalPacked(pack_repo(made.fs, repo_root, TmpPack, seed, policy, now),
                     repo_root, target_dir, seed, policy, now)

replicate_local(F, repo_root, target_dir, seed, policy, now) ==
    IF Len(seed.fingerprint) < 16 THEN [fs |-> F, res |-> Err("Panic")]
    ELSE DropTemps(LocalTemp(create_dir_all(F, TmpPack), repo_root, target_dir, seed,
                             policy, now))

\* the receipt of a rootball: RG0, RG1 and RG5
RootballReceipt(output_dir, seed, pack_hash, now) ==
    ReplicationReceipt_new(<<114, 101, 112, 108, 105, 99, 97, 116, 101>> (* "replicate" *), <<82, 49, 95, 82, 79, 79, 84, 66, 65, 76, 76, 95, 83, 69, 69, 68>> (* "R1_ROOTBALL_SEED" *), seed.fingerprint,
        pack_hash, None,
        ReplicateGates(seed)
        \o <<ReceiptGate(<<114, 111, 111, 116, 98, 97, 108, 108, 32, 99, 114, 101, 97, 116, 101, 100, 32, 97, 116, 32>> (* "rootball created at " *) \o output_dir)>>,
        now)

RootballPacked(packed, output_dir, seed, now) ==
    IF ~packed.res.ok THEN [fs |-> packed.fs, res |-> PackErr(packed.res)]
    ELSE IF ~packed.res.v.passed
    THEN [fs |-> packed.fs, res |-> ErrReason("GateFailed", <<112, 97, 99, 107>> (* "pack" *))]
    ELSE ReplicateFinish(packed.fs, output_dir,
                         RootballReceipt(output_dir, seed, packed.res.v.pack_hash, now))

replicate_rootball(F, repo_root, output_dir, seed, policy, now) ==
    IF Len(seed.fingerprint) < 16 THEN [fs |-> F, res |-> Err("Panic")]
    ELSE RootballPacked(pack_repo(F, repo_root, output_dir, seed, policy, now),
                        output_dir, seed, now)

(***************************************************************************)
(* Replication: a repository is cloned into the target directory or packed *)
(* as a rootball, and the target is packed again.  Before the first clone  *)
(* the target may already hold a copy of one file of the repository.  A    *)
(* run is either a rootball, or clones followed by a pack of the target.   *)
(***************************************************************************)
ReplicateLocalDone(r, target, seed, policy) ==
    /\ fs' = r.fs
    /\ ret' = [op |-> "replicate_local", target |-> target, seed |-> seed,
               policy |-> policy, res |-> r.res]
    /\ prov' = [prov EXCEPT ![target] =
                   IF r.res.ok THEN [kind |-> "replica", seed |-> seed, policy |-> policy]
                   ELSE [kind |-> "other"]]
    /\ UNCHANGED clock

ReplicateLocal(target, seed, policy) ==
    /\ ~PathExists(fs, P1) /\ ~PathExists(fs, P2)
    /\ ReplicateLocalDone(replicate_local(fs, RepoRoot, target, seed, policy,
                                          Timestamp(clock)),
                          target, seed, policy)

ReplicateRootballDone(r, out, seed, policy) ==
    /\ fs' = r.fs
    /\ ret' = [op |-> "replicate_rootball", dir |-> out, seed |-> seed,
               policy |-> policy, res |-> r.res]
    /\ prov' = [prov EXCEPT ![out] =
                   IF r.res.ok
                   THEN [kind |-> "pack", seed |-> seed, policy |-> policy,
                         at |-> clock, tampers |-> 0]
                   ELSE [kind |-> "other"]]
    /\ UNCHANGED clock

ReplicateRootball(out, seed, policy) ==
    /\ ~PathExists(fs, out) /\ ~PathExists(fs, TargetDir)
    /\ ReplicateRootballDone(replicate_rootball(fs, RepoRoot, out, seed, policy,
                                                Timestamp(clock)),
                             out, seed, policy)

PackFromDone(r, src, out, seed, policy) ==
    /\ fs' = r.fs
    /\ ret' = [op |-> "pack_from", src |-> src, dir |-> out, seed |-> seed,
               policy |-> policy, res |-> r.res]
    /\ prov' = [prov EXCEPT ![out] = [kind |-> "other"]]
    /\ UNCHANGED clock

\* pack_repo of a directory other than the repository
PackFrom(src, out, seed, policy) ==
    /\ PathExists(fs, src)
    /\ ~PathExists(fs, out)
    /\ PackFromDone(pack_repo(fs, src, out, seed, policy, Timestamp(clock)),
                    src, out, seed, policy)

\* someone copies one file of the repository into the target beforehand
PlantTarget(target) ==
    /\ ~PathExists(fs, target)
    /\ \E p \in DOMAIN RepoUniverse :
          /\ IsFile(fs, JoinPath(RepoRoot, p))
          /\ fs' = write_under(fs, JoinPath(target, NormalizeRel(p)), RepoUniverse[p]).fs
    /\ ret' = EnvRet
    /\ UNCHANGED <<prov, clock>>

NextReplicate ==
    \/ \E policy \in Policies : ReplicateLocal(TargetDir, SeedOne, policy)
    \/ \E policy \in Policies : ReplicateRootball(P1, SeedOne, policy)
    \/ \E policy \in Policies : PackFrom(TargetDir, P2, SeedOne, policy)
    \/ PlantTarget(TargetDir)

SpecReplicate == InitRepo /\ [][NextReplicate]_vars

(***************************************************************************)
(* originctl verify (originctl/src/commands.rs run_verify, main.rs main).  *)
(* What the command prints is kept as the receipt whose gates it printed,  *)
(* None when it printed no gates.                                          *)
(***************************************************************************)
S_seed_in_pack == <<100, 97, 116, 97, 47, 115, 112, 101, 99, 47, 115, 101, 101, 100, 47, 100, 101, 110, 111, 116, 117, 109, 46, 115, 101, 101, 100, 46, 50, 105, 46, 121, 97, 109, 108>> (* "data/spec/seed/denotum.seed.2i.yaml" *)

TmpCpack == <<47, 116, 109, 112, 47, 51>> (* "/tmp/3" *)

\* Seed::load
Seed_load_path(F, path) ==
    IF ~PathExists(F, path) THEN Err("SeedNotFound")
    ELSE IF ~IsFile(F, path) THEN Err("Io")
    ELSE Ok(Seed_load(F.files[path]))

\* the gates are printed; a receipt that did not pass is an error
VerifyReport(receipt) ==
    IF ~receipt.ok THEN receipt
    ELSE IF ~receipt.v.passed THEN ErrReason("Bail", <<118, 101, 114, 105, 102, 105, 99, 97, 116, 105, 111, 110, 32, 102, 97, 105, 108, 101, 100>> (* "verification failed" *))
    ELSE Ok(Some(receipt.v))

VerifySeeded(F, dir, seed, now) ==
    IF ~seed.ok THEN seed
    ELSE VerifyReport(verify_pack(F, dir, seed.v, now))

\* a CPACK file: after decompress_cpack, verify_pack runs only when a seed
\* path is given or the pack holds the seed file
VerifyUnpacked(unpacked, seed_path, now) ==
    IF ~unpacked.res.ok THEN unpacked.res
    ELSE IF seed_path.some
    THEN VerifySeeded(unpacked.fs, TmpCpack, Seed_load_path(unpacked.fs, seed_path.v), now)
    ELSE IF PathExists(unpacked.fs, JoinPath(TmpCpack, S_seed_in_pack))
    THEN VerifySeeded(unpacked.fs, TmpCpack,
                      Seed_load_path(unpacked.fs, JoinPath(TmpCpack, S_seed_in_pack)), now)
    ELSE Ok(None)

VerifyCpack(made, path, seed_path, now) ==
    IF ~made.ok THEN Err("Io")
    ELSE VerifyUnpacked(decompress_cpack(made.fs, path, TmpCpack), seed_path, now)

\* a DPACK directory: the seed of --seed, else the one in the pack, else an
\* error
VerifyDpack(F, path, seed_path, now) ==
    IF seed_path.some THEN VerifySeeded(F, path, Seed_load_path(F, seed_path.v), now)
    ELSE IF PathExists(F, JoinPath(path, S_seed_in_pack))
    THEN VerifySeeded(F, path, Seed_load_path(F, JoinPath(path, S_seed_in_pack)), now)
    ELSE ErrReason("Bail",
             <<110, 111, 32, 115, 101, 101, 100, 32, 112, 97, 116, 104, 32, 112, 114, 111, 118, 105, 100, 101, 100, 59, 32, 117, 115, 101, 32, 45, 45, 115, 101, 101, 100, 32, 111, 114, 32, 101, 110, 115, 117, 114, 101, 32, 115, 101, 101, 100, 32, 105, 115, 32, 105, 110, 32, 112, 97, 99, 107, 32, 100, 97, 116, 97>> (* "no seed path provided; use --seed or ensure seed is in pack data" *))

\* run_verify; the temporary directory is gone when it returns
run_verify(F, path, seed_path, now) ==
    IF IsFile(F, path)
    THEN [fs |-> remove_dir_all(create_dir_all(F, TmpCpack).fs, TmpCpack),
          res |-> VerifyCpack(create_dir_all(F, TmpCpack), path, seed_path, now)]
    ELSE [fs |-> F, res |-> VerifyDpack(F, path, seed_path, now)]

\* main: process::exit(1) on an error, else the process ends with 0
main_exit(result) == IF result.ok THEN 0 ELSE 1

(***************************************************************************)
(* The command line: two seed files, a repository that may hold the seed   *)
(* at spec/seed/, one pack, its CPACK file, and what may happen to them.   *)
(***************************************************************************)
SeedFileA == <<47, 115, 49>> (* "/s1" *)
SeedFileB == <<47, 115, 50>> (* "/s2" *)

CliTrees ==
    {t \in RepoTrees : Cardinality(DOMAIN t) <= 1}
        \cup {(<<115, 112, 101, 99, 47, 115, 101, 101, 100, 47, 100, 101, 110, 111, 116, 117, 109, 46, 115, 101, 101, 100, 46, 50, 105, 46, 121, 97, 109, 108>> (* "spec/seed/denotum.seed.2i.yaml" *) :> <<115, 101, 101, 100, 45, 49>> (* "seed-1" *))}

InitCli ==
    /\ \E tree \in CliTrees :
          fs = MakeTree(fs_write(fs_write(create_dir_all(RootFs, RepoRoot).fs,
                                          SeedFileA, <<115, 101, 101, 100, 45, 49>> (* "seed-1" *)).fs,
                                 SeedFileB, <<115, 101, 101, 100, 45, 50>> (* "seed-2" *)).fs,
                        RepoRoot, tree, SortedSeq(DOMAIN tree))
    /\ ret = NoRet
    /\ prov = [d \in {P1, P2, TargetDir, CpackA, CpackB} |-> NoProv]
    /\ clock = 1

RunVerifyDone(r, path, seed_path) ==
    /\ fs' = r.fs
    /\ ret' = [op |-> "run_verify", path |-> path, seed_path |-> seed_path,
               res |-> r.res, exit |-> main_exit(r.res)]
    /\ UNCHANGED <<prov, clock>>

RunVerify(path, seed_path) ==
    RunVerifyDone(run_verify(fs, path, seed_path, Timestamp(clock)), path, seed_path)

NextCli ==
    \/ \E policy \in Policies : Pack(P1, SeedOne, policy)
    \/ TamperData(P1)
    \/ Compress(P1, CpackA)
    \/ Truncate(CpackA)
    \/ \E path \in {P1, CpackA}, seed_path \in {None, Some(SeedFileA), Some(SeedFileB)} :
          RunVerify(path, seed_path)

SpecCli == InitCli /\ [][NextCli]_vars

(***************************************************************************)
(* One pack directory whose manifest may record another size for its       *)
(* files, or whose data may be changed, before it is verified.             *)
(***************************************************************************)
\* the manifest with every entry's size one larger
Resized(m) ==
    [m EXCEPT !.files = [p \in DOMAIN @ |-> FileEntry(@[p].sha256, @[p].size + 1)]]

TamperSizeRead(dir, read) ==
    /\ read.ok
    /\ RewriteManifest(dir, read.v, Resized(read.v))

\* someone rewrites the sizes recorded in manifest.json
TamperSize(dir) ==
    /\ CanTamper(dir)
    /\ TamperSizeRead(dir, ReadManifest(fs, dir))

NextSize ==
    \/ \E seed \in Seeds, policy \in Policies : Pack(P1, seed, policy)
    \/ TamperSize(P1)
    \/ TamperData(P1)
    \/ \E seed \in Seeds : Verify(P1, seed)

SpecSize == InitRepo /\ [][NextSize]_vars

(***************************************************************************)
(* Policy::is_allowed on its own: a policy and a relative path are drawn,  *)
(* then the function is applied.                                           *)
(***************************************************************************)
MaxGlobs == 2

\* an exact name, a directory, a name at any depth, an extension, and a
\* pattern whose two literal parts overlap on the path "a"
GlobPatterns == {<<97>> (* "a" *), <<100, 47, 42, 42>> (* "d/**" *), <<42, 42, 47, 98>> (* "**/b" *), <<42, 46, 109, 100>> (* "*.md" *), <<97, 42, 97>> (* "a*a" *)}

GlobPaths == {<<97>> (* "a" *), <<98>> (* "b" *), <<100, 47, 98>> (* "d/b" *), <<114, 46, 109, 100>> (* "r.md" *), <<100, 47, 114, 46, 109, 100>> (* "d/r.md" *), <<97, 98, 97>> (* "aba" *)}

GlobLists == UNION {[1..n -> GlobPatterns] : n \in 0..MaxGlobs}

InitPolicy ==
    /\ fs = RootFs
    /\ \E inc \in GlobLists, exc \in GlobLists, path \in GlobPaths :
          ret = [op |-> "policy", policy |-> [include |-> inc, exclude |-> exc],
                 path |-> path]
    /\ prov = [d \in {P1, P2, TargetDir, CpackA, CpackB} |-> NoProv]
    /\ clock = 1

IsAllowed ==
    /\ ret.op = "policy"
    /\ ret' = [op |-> "is_allowed", policy |-> ret.policy, path |-> ret.path,
               res |-> is_allowed(ret.policy, ret.path)]
    /\ UNCHANGED <<fs, prov, clock>>

NextPolicy == IsAllowed

SpecPolicy == InitPolicy /\ [][NextPolicy]_vars

(***************************************************************************)
(* replicate_zip2repo_v1 (replication_core/src/replicate.rs).              *)
(***************************************************************************)
S_dot_git == <<46, 103, 105, 116>> (* ".git" *)

ZipShapeGate(shape_eq) ==
    ReplicationGateResult(RG2_SHAPE_EQUIVALENCE,
        IF shape_eq THEN "Pass" ELSE "Fail",
        IF shape_eq THEN <<115, 104, 97, 112, 101, 32, 112, 114, 101, 115, 101, 114, 118, 101, 100>> (* "shape preserved" *) ELSE <<115, 104, 97, 112, 101, 32, 109, 105, 115, 109, 97, 116, 99, 104>> (* "shape mismatch" *))

\* the receipt of either outcome: the source's pack_hash, no target_pack_hash
ZipReceipt(seed, pack_hash, gates, now) ==
    ReplicationReceipt_new(<<114, 101, 112, 108, 105, 99, 97, 116, 101>> (* "replicate" *), <<82, 50, 95, 90, 73, 80, 95, 84, 79, 95, 70, 82, 69, 83, 72, 95, 82, 69, 80, 79, 95, 86, 49>> (* "R2_ZIP_TO_FRESH_REPO_V1" *), seed.fingerprint,
                           pack_hash, None, gates, now)

ZipFinish(F, out_dir, seed, pack_hash, now) ==
    ReplicateFinish(F, out_dir,
        ZipReceipt(seed, pack_hash,
                   ReplicateGates(seed)
                   \o <<ZipShapeGate(TRUE), ReceiptGate(<<114, 101, 112, 108, 105, 99, 97, 116, 105, 111, 110, 32, 114, 101, 99, 101, 105, 112, 116, 32, 101, 109, 105, 116, 116, 101, 100>> (* "replication receipt emitted" *))>>,
                   now))

\* the marker of a git repository: .git, .git/HEAD and .git/refs/heads
ZipGitHeads(wrote, git_dir, out_dir, seed, pack_hash, now) ==
    IF ~wrote.ok THEN [fs |-> wrote.fs, res |-> Err("Io")]
    ELSE IF ~create_dir_all(wrote.fs, JoinPath(git_dir, <<114, 101, 102, 115, 47, 104, 101, 97, 100, 115>> (* "refs/heads" *))).ok
    THEN [fs |-> wrote.fs, res |-> Err("Io")]
    ELSE ZipFinish(create_dir_all(wrote.fs, JoinPath(git_dir, <<114, 101, 102, 115, 47, 104, 101, 97, 100, 115>> (* "refs/heads" *))).fs,
                   out_dir, seed, pack_hash, now)

ZipGitInit(made, git_dir, out_dir, seed, pack_hash, now) ==
    IF ~made.ok THEN [fs |-> made.fs, res |-> Err("Io")]
    ELSE ZipGitHeads(fs_write(made.fs, JoinPath(git_dir, <<72, 69, 65, 68>> (* "HEAD" *)),
                              <<114, 101, 102, 58, 32, 114, 101, 102, 115, 47, 104, 101, 97, 100, 115, 47, 109, 97, 105, 110>> (* "ref: refs/heads/main" *) \o <<10>>),
                     git_dir, out_dir, seed, pack_hash, now)

\* RG2: a mismatch returns Failed; there is no second pack and no RG3
ZipShape(F, out_dir, seed, init_git, pack_hash, now, shape_eq) ==
    IF ~shape_eq.ok THEN [fs |-> F, res |-> PackErr(shape_eq)]
    ELSE IF ~shape_eq.v
    THEN [fs |-> F,
          res |-> ErrReason("Failed",
                      ReplicationReceipt_to_json(
                          ZipReceipt(seed, pack_hash,
                                     ReplicateGates(seed) \o <<ZipShapeGate(FALSE)>>, now)))]
    ELSE IF init_git /\ ~PathExists(F, JoinPath(out_dir, S_dot_git))
    THEN ZipGitInit(create_dir_all(F, JoinPath(out_dir, S_dot_git)),
                    JoinPath(out_dir, S_dot_git), out_dir, seed, pack_hash, now)
    ELSE ZipFinish(F, out_dir, seed, pack_hash, now)

ZipUnfurled(unfurled, source_dir, out_dir, seed, init_git, pack_hash, now) ==
    IF ~unfurled.res.ok THEN [fs |-> unfurled.fs, res |-> PackErr(unfurled.res)]
    ELSE IF ~unfurled.res.v.passed
    THEN [fs |-> unfurled.fs, res |-> ErrReason("GateFailed", <<117, 110, 102, 117, 114, 108>> (* "unfurl" *))]
    ELSE ZipShape(unfurled.fs, out_dir, seed, init_git, pack_hash, now,
                  verify_shape_equivalence(unfurled.fs, source_dir, out_dir))

ZipPacked(packed, source_dir, out_dir, seed, init_git, now) ==
    IF ~packed.res.ok THEN [fs |-> packed.fs, res |-> PackErr(packed.res)]
    ELSE IF ~packed.res.v.passed
    THEN [fs |-> packed.fs, res |-> ErrReason("GateFailed", <<112, 97, 99, 107>> (* "pack" *))]
    ELSE ZipUnfurled(unfurl_pack(packed.fs, TmpPack, out_dir, seed, now),
                     source_dir, out_dir, seed, init_git, packed.res.v.pack_hash, now)

ZipTemp(made, source_dir, out_dir, seed, init_git, policy, now) ==
    IF ~made.ok THEN [fs |-> made.fs, res |-> Err("Io")]
    ELSE ZipPacked(pack_repo(made.fs, source_dir, TmpPack, seed, policy, now),
                   source_dir, out_dir, seed, init_git, now)

replicate_zip2repo_v1(F, source_dir, out_dir, seed, init_git, policy, now) ==
    IF Len(seed.fingerprint) < 16 THEN [fs |-> F, res |-> Err("Panic")]
    ELSE DropTemps(ZipTemp(create_dir_all(F, TmpPack), source_dir, out_dir, seed,
                           init_git, policy, now))

(***************************************************************************)
(* An extracted directory is replicated into the target, which may already *)
(* hold a copy of one of its files.                                        *)
(***************************************************************************)
ReplicateZipDone(r, out, seed, init_git, policy) ==
    /\ fs' = r.fs
    /\ ret' = [op |-> "replicate_zip2repo_v1", target |-> out, seed |-> seed,
               init_git |-> init_git, policy |-> policy, res |-> r.res]
    /\ prov' = [prov EXCEPT ![out] =
                   IF r.res.ok THEN [kind |-> "replica", seed |-> seed, policy |-> policy]
                   ELSE [kind |-> "other"]]
    /\ UNCHANGED clock

ReplicateZip(out, seed, init_git, policy) ==
    ReplicateZipDone(replicate_zip2repo_v1(fs, RepoRoot, out, seed, init_git, policy,
                                           Timestamp(clock)),
                     out, seed, init_git, policy)

NextZip ==
    \/ \E init_git \in BOOLEAN, policy \in Policies :
          ReplicateZip(TargetDir, SeedOne, init_git, policy)
    \/ PlantTarget(TargetDir)

SpecZip == InitRepo /\ [][NextZip]_vars


(***************************************************************************)
(* The CPACK header on its own: a header is drawn and serialised, the      *)
(* bytes are damaged (one byte changed, the buffer cut or extended), then  *)
(* CpackHeader::from_bytes is applied.                                     *)
(***************************************************************************)
HeaderVersions == {0, 1, 2}

HeaderMethods == {0, 1, 2}

HeaderDigests == {sha256_bytes(<< >>), sha256_bytes(<<97>> (* "a" *))}

HeaderSizes == {0, 1, 258, 70000}

Headers ==
    {CpackHeader(v, m, d, n) : v \in HeaderVersions, m \in HeaderMethods,
                               d \in HeaderDigests, n \in HeaderSizes}

\* byte offsets that are changed: the magic, a reserved byte, the digest and
\* the size; -1 changes nothing
HeaderFlips == {-1, 0, 3, 6, 8, 40, 47}

HeaderLens == {0, 3, 47, 48, 50}

Resized_to(data, n) ==
    IF n <= Len(data) THEN SubSeq(data, 1, n)
    ELSE data \o [i \in 1..(n - Len(data)) |-> 7]

Damaged(data, flip, n) ==
    Resized_to([i \in 1..Len(data) |-> IF i = flip + 1 THEN (data[i] + 1) % 256
                                        ELSE data[i]], n)

InitHeader ==
    /\ fs = RootFs
    /\ \E h \in Headers, flip \in HeaderFlips, n \in HeaderLens :
          ret = [op |-> "header", h |-> h,
                 data |-> Damaged(CpackHeader_to_bytes(h), flip, n)]
    /\ prov = [d \in {P1, P2, TargetDir, CpackA, CpackB} |-> NoProv]
    /\ clock = 1

FromBytes ==
    /\ ret.op = "header"
    /\ ret' = [op |-> "from_bytes", h |-> ret.h, data |-> ret.data,
               res |-> CpackHeader_from_bytes(ret.data)]
    /\ UNCHANGED <<fs, prov, clock>>

ToBytes ==
    /\ ret.op = "header"
    /\ ret' = [op |-> "to_bytes", h |-> ret.h, data |-> CpackHeader_to_bytes(ret.h),
               res |-> CpackHeader_from_bytes(CpackHeader_to_bytes(ret.h))]
    /\ UNCHANGED <<fs, prov, clock>>

NextHeader == FromBytes \/ ToBytes

SpecHeader == InitHeader /\ [][NextHeader]_vars

(***************************************************************************)
(* The payload frame on its own: a manifest and a list of files are drawn  *)
(* and encoded; the bytes are decoded whole, cut to a strict prefix, or    *)
(* with one byte changed.                                                  *)
(***************************************************************************)
MaxPayloadFiles == 2

PayloadManifests == {<< >>, <<123, 125>> (* "{}" *), <<123, 34, 97, 34, 58, 49, 125>> (* "{"a":1}" *)}

PayloadPaths == {<< >>, <<97>> (* "a" *), <<100, 47, 98>> (* "d/b" *)}

PayloadContents == {<< >>, <<120>> (* "x" *), <<0, 255>>}

PayloadEntries == {[path |-> p, content |-> c] : p \in PayloadPaths, c \in PayloadContents}

PayloadLists == UNION {[1..n -> PayloadEntries] : n \in 0..MaxPayloadFiles}

InitPayload ==
    /\ fs = RootFs
    /\ \E m \in PayloadManifests, files \in PayloadLists :
          ret = [op |-> "encode_payload", manifest_json |-> m, files |-> files,
                 data |-> encode_payload(m, files)]
    /\ prov = [d \in {P1, P2, TargetDir, CpackA, CpackB} |-> NoProv]
    /\ clock = 1

Decoded(kind, data) ==
    /\ ret' = [op |-> kind, manifest_json |-> ret.manifest_json, files |-> ret.files,
               data |-> data, res |-> decode_payload(data)]
    /\ UNCHANGED <<fs, prov, clock>>

DecodeWhole ==
    /\ ret.op = "encode_payload"
    /\ Decoded("decode_payload", ret.data)

DecodePrefix ==
    /\ ret.op = "encode_payload"
    /\ \E n \in 0..(Len(ret.data) - 1) : Decoded("decode_prefix", SubSeq(ret.data, 1, n))

DecodeChanged ==
    /\ ret.op = "encode_payload"
    /\ \E i \in 1..Len(ret.data) :
          Decoded("decode_changed", [ret.data EXCEPT ![i] = (@ + 1) % 256])

NextPayload == DecodeWhole \/ DecodePrefix \/ DecodeChanged

SpecPayload == InitPayload /\ [][NextPayload]_vars

(***************************************************************************)
(* A repository whose walk order is not the order of its relative paths:   *)
(* the directory a is walked before the file a.txt, and "a.txt" sorts      *)
(* before "a/b".  The file named a\b has the relative path of a/b.         *)
(***************************************************************************)
MaxOrderFiles == 3

OrderUniverse ==
    (<<97, 46, 116, 120, 116>> (* "a.txt" *) :> <<120>> (* "x" *)) @@ (<<97, 47, 98>> (* "a/b" *) :> <<121, 122>> (* "yz" *)) @@ (<<97, 92, 98>> (* "a\b" *) :> <<119>> (* "w" *)) @@ (<<98>> (* "b" *) :> << >>)

OrderTrees ==
    {[p \in S |-> OrderUniverse[p]] :
        S \in {T \in SUBSET DOMAIN OrderUniverse : Cardinality(T) <= MaxOrderFiles}}

InitOrder ==
    /\ \E tree \in OrderTrees :
          fs = MakeTree(create_dir_all(RootFs, RepoRoot).fs, RepoRoot, tree,
                        SortedSeq(DOMAIN tree))
    /\ ret = NoRet
    /\ prov = [d \in {P1, P2, TargetDir, CpackA, CpackB} |-> NoProv]
    /\ clock = 1

NextOrder ==
    \/ \E seed \in Seeds, policy \in Policies : Pack(P1, seed, policy)
    \/ Compress(P1, CpackA)

SpecOrder == InitOrder /\ [][NextOrder]_vars

(***************************************************************************)
(* glob_match on its own: a pattern and a path are drawn, then the         *)
(* function is applied.                                                    *)
(***************************************************************************)
\* patterns that begin with "**/", and patterns with one star: an extension,
\* a prefix, a star inside a directory, and two whose literal parts overlap
\* on a short path
MatchPatterns ==
    {<<42, 42, 47, 98>> (* "**/b" *), <<42, 42, 47, 100, 47, 98>> (* "**/d/b" *), <<42, 42, 47, 42, 46, 109, 100>> (* "**/*.md" *),
     <<42, 46, 109, 100>> (* "*.md" *), <<97, 42>> (* "a*" *), <<100, 47, 42, 98>> (* "d/*b" *), <<97, 42, 97>> (* "a*a" *), <<97, 98, 42, 98, 97>> (* "ab*ba" *)}

MatchPaths ==
    {<<98>> (* "b" *), <<97, 98>> (* "ab" *), <<100, 47, 98>> (* "d/b" *), <<100, 47, 97, 98>> (* "d/ab" *), <<120, 47, 100, 47, 98>> (* "x/d/b" *), <<120, 100, 47, 98>> (* "xd/b" *), <<114, 46, 109, 100>> (* "r.md" *), <<100, 47, 114, 46, 109, 100>> (* "d/r.md" *),
     <<97>> (* "a" *), <<97, 97>> (* "aa" *), <<97, 98, 97>> (* "aba" *), <<97, 98, 98, 97>> (* "abba" *), <<97, 47, 97>> (* "a/a" *), <<100, 47, 98, 47, 98>> (* "d/b/b" *)}

InitGlob ==
    /\ fs = RootFs
    /\ \E pattern \in MatchPatterns, path \in MatchPaths :
          ret = [op |-> "glob", pattern |-> pattern, path |-> path]
    /\ prov = [d \in {P1, P2, TargetDir, CpackA, CpackB} |-> NoProv]
    /\ clock = 1

GlobMatch ==
    /\ ret.op = "glob"
    /\ ret' = [op |-> "glob_match", pattern |-> ret.pattern, path |-> ret.path,
               res |-> glob_match(ret.pattern, ret.path)]
    /\ UNCHANGED <<fs, prov, clock>>

NextGlob == GlobMatch

SpecGlob == InitGlob /\ [][NextGlob]_vars

(***************************************************************************)
(* unfurl_pack racing with a writer: after the call has verified the pack  *)
(* and restored the first `turn` files, another process replaces the       *)
(* content of the data file `victim`; then the loop goes on.               *)
(***************************************************************************)
RacedSecond(first, data_dir, target_dir, files, ks, victim, turn) ==
    IF first.err # "" THEN first
    ELSE UnfurlLoop(fs_write(first.fs, JoinPath(data_dir, victim), TamperContent).fs,
                    data_dir, target_dir, files, SubSeq(ks, turn + 1, Len(ks)),
                    first.restored)

RacedLoop(F, data_dir, target_dir, files, ks, victim, turn) ==
    RacedSecond(UnfurlLoop(F, data_dir, target_dir, files, SubSeq(ks, 1, turn), 0),
                data_dir, target_dir, files, ks, victim, turn)

RacedInto(made, pack_dir, target_dir, seed, manifest, now, victim, turn) ==
    IF ~made.ok THEN [fs |-> made.fs, res |-> Err("Io")]
    ELSE UnfurlRestored(RacedLoop(made.fs, JoinPath(pack_dir, S_data), target_dir,
                                  manifest.files, BTreeKeys(manifest.files), victim, turn),
                        pack_dir, seed, manifest.pack_hash, now)

RacedRead(F, pack_dir, target_dir, seed, now, read, victim, turn) ==
    IF ~read.ok THEN [fs |-> F, res |-> read]
    ELSE RacedInto(create_dir_all(F, target_dir), pack_dir, target_dir, seed, read.v, now,
                   victim, turn)

RacedVerified(F, pack_dir, target_dir, seed, now, verify_receipt, victim, turn) ==
    IF ~verify_receipt.ok THEN [fs |-> F, res |-> verify_receipt]
    ELSE IF ~verify_receipt.v.passed
    THEN [fs |-> F,
          res |-> ErrReason("VerificationFailed",
                            <<112, 97, 99, 107, 32, 118, 101, 114, 105, 102, 105, 99, 97, 116, 105, 111, 110, 32, 102, 97, 105, 108, 101, 100, 59, 32, 114, 101, 102, 117, 115, 105, 110, 103, 32, 116, 111, 32, 117, 110, 102, 117, 114, 108>> (* "pack verification failed; refusing to unfurl" *))]
    ELSE RacedRead(F, pack_dir, target_dir, seed, now, ReadManifest(F, pack_dir),
                   victim, turn)

unfurl_pack_raced(F, pack_dir, target_dir, seed, now, victim, turn) ==
    RacedVerified(F, pack_dir, target_dir, seed, now, verify_pack(F, pack_dir, seed, now),
                  victim, turn)

UnfurlRacedDone(r, dir, target, seed, victim, turn) ==
    /\ fs' = r.fs
    /\ ret' = [op |-> "unfurl_raced", dir |-> dir, target |-> target, seed |-> seed,
               victim |-> victim, turn |-> turn, res |-> r.res]
    /\ prov' = [prov EXCEPT ![target] = [kind |-> "other"]]
    /\ UNCHANGED clock

RaceTurns(keys) ==
    {<<keys[i], turn>> : i \in 1..Len(keys), turn \in 0..Len(keys)}

UnfurlRacedAt(dir, target, seed, races) ==
    \E race \in races :
        UnfurlRacedDone(unfurl_pack_raced(fs, dir, target, seed, Timestamp(clock),
                                          race[1], race[2]),
                        dir, target, seed, race[1], race[2])

UnfurlRaced(dir, target, seed) ==
    /\ prov[dir].kind = "pack"
    /\ ~PathExists(fs, target)
    /\ UnfurlRacedAt(dir, target, seed, RaceTurns(BTreeKeys(ReadManifest(fs, dir).v.files)))

NextRace ==
    \/ \E seed \in Seeds, policy \in Policies : Pack(P1, seed, policy)
    \/ \E seed \in Seeds : UnfurlRaced(P1, TargetDir, seed)

SpecRace == InitRepo /\ [][NextRace]_vars

(***************************************************************************)
(* A CPACK file whose payload names a file by an absolute path: someone    *)
(* replaces a CPACK file by a well-formed frame (header, digest and length *)
(* fit) whose payload holds one more file, then it is decompressed.        *)
(***************************************************************************)
EscapePath == <<47, 101>> (* "/e" *)

PlantedPayload(decoded) ==
    encode_payload(decoded.manifest_json,
                   Append(decoded.files, [path |-> EscapePath, content |-> TamperContent]))

PlantedFrame(payload) == CpackFrame(sha256_bytes(payload), zstd_encode_all(payload, 3))

ForgePath(path) ==
    /\ prov[path].kind = "cpack"
    /\ Corrupted(path, [kind |-> "planted"],
                 PlantedFrame(PlantedPayload(decode_payload(
                     zstd_decode_all(Slice(fs.files[path], HEADER_SIZE,
                                           Len(fs.files[path]))).v).v)))

NextEscape ==
    \/ \E policy \in Policies : Pack(P1, SeedOne, policy)
    \/ Compress(P1, CpackA)
    \/ ForgePath(CpackA)
    \/ Decompress(CpackA, OutDir)

SpecEscape == InitRepo /\ [][NextEscape]_vars

(***************************************************************************)
(* compute_pack_hash on its own: two files maps are drawn, then the bytes  *)
(* fed to the hasher and the hash are computed for each.  One of the paths *)
(* holds a ':' and a line feed.                                            *)
(***************************************************************************)
HashDigests == {compute_sha256(<<120>> (* "x" *)), compute_sha256(<<121, 122>> (* "yz" *))}

\* a, b, and the file name "a:" + SHA-256 of x + "\n" + "b"
HashPaths == {<<97>> (* "a" *), <<98>> (* "b" *), <<97, 58>> (* "a:" *) \o compute_sha256(<<120>> (* "x" *)) \o <<10>> \o <<98>> (* "b" *)}

HashMaps ==
    UNION {[S -> {FileEntry(d, 1) : d \in HashDigests}] : S \in SUBSET HashPaths}

InitHash ==
    /\ fs = RootFs
    /\ \E a \in HashMaps, b \in HashMaps : ret = [op |-> "files", a |-> a, b |-> b]
    /\ prov = [d \in {P1, P2, TargetDir, CpackA, CpackB} |-> NoProv]
    /\ clock = 1

ComputePackHash ==
    /\ ret.op = "files"
    /\ ret' = [op |-> "compute_pack_hash", a |-> ret.a, b |-> ret.b,
               fed_a |-> PackHashPreimage(ret.a), fed_b |-> PackHashPreimage(ret.b),
               hash_a |-> compute_pack_hash(ret.a), hash_b |-> compute_pack_hash(ret.b)]
    /\ UNCHANGED <<fs, prov, clock>>

NextHash == ComputePackHash

SpecHash == InitHash /\ [][NextHash]_vars
(***************************************************************************)
(* Properties of pack, verify and unfurl.                                  *)
(***************************************************************************)
\* verify_pack returns a receipt whose passed is false
VerifyRejects(F, dir, seed, now) ==
    /\ verify_pack(F, dir, seed, now).ok
    /\ ~verify_pack(F, dir, seed, now).v.passed

\* nothing at or under path p differs between F and G, and p is in G only if in F
SameUnder(F, G, p) ==
    /\ PathExists(G, p) => PathExists(F, p)
    /\ \A q \in DOMAIN G.files :
          (q = p \/ StartsWith(q, p \o <<Slash>>))
              => (q \in DOMAIN F.files /\ F.files[q] = G.files[q])

\* C1: whenever verify_pack on the pack directory yields passed = false,
\* unfurl_pack returns VerificationFailed, the target directory is not
\* created, no file is written into it, and unfurl_receipt.json is not
\* written into the pack directory.
C1_UnfurlFailClosed ==
    [][(ret'.op = "unfurl" /\ VerifyRejects(fs, ret'.dir, ret'.seed, Timestamp(clock)))
         => /\ ret'.res.err = "VerificationFailed"
            /\ SameUnder(fs, fs', ret'.target)
            /\ SameUnder(fs, fs', JoinPath(ret'.dir, S_unfurl_receipt_json))]_vars

\* an unfurl of a rejected pack has returned, and there is no target
\* directory and no unfurl receipt
C1_Witness ==
    /\ ret.op = "unfurl"
    /\ VerifyRejects(fs, ret.dir, ret.seed, Timestamp(clock))
    /\ ret.res.err = "VerificationFailed"
    /\ ~PathExists(fs, ret.target)
    /\ ~PathExists(fs, JoinPath(ret.dir, S_unfurl_receipt_json))

\* the manifest entries whose file under data/ is missing or has another digest
PinFailures(F, dir, m) ==
    {p \in DOMAIN m.files :
        \/ ~IsFile(F, JoinPath(JoinPath(dir, S_data), p))
        \/ compute_sha256(F.files[JoinPath(JoinPath(dir, S_data), p)]) # m.files[p].sha256}

FirstPath(S) == CHOOSE p \in S : \A q \in S \ {p} : LexLess(p, q)

\* what C4 requires of the gate g of a receipt for manifest m
PinningAsSpecified(F, dir, m, receipt, g, bad) ==
    /\ g.gate = G3_PINNING
    /\ g.status = (IF bad = {} THEN "Pass" ELSE "Fail")
    /\ bad = {} =>
          g.detail = Dec(Cardinality(DOMAIN m.files)) \o <<32, 102, 105, 108, 101, 115, 32, 118, 101, 114, 105, 102, 105, 101, 100>> (* " files verified" *)
    /\ bad # {} =>
          /\ ~receipt.passed
          /\ EndsWith(g.detail, <<58, 32>> (* ": " *) \o FirstPath(bad))
          /\ g.detail = (IF IsFile(F, JoinPath(JoinPath(dir, S_data), FirstPath(bad)))
                         THEN <<104, 97, 115, 104, 32, 109, 105, 115, 109, 97, 116, 99, 104, 58, 32>> (* "hash mismatch: " *) ELSE <<102, 105, 108, 101, 32, 109, 105, 115, 115, 105, 110, 103, 58, 32>> (* "file missing: " *))
                        \o FirstPath(bad)

\* C4: G3_PINNING is Fail exactly when some manifest entry's file is missing
\* or has another SHA-256; its detail names the first such path in ascending
\* order; otherwise it is Pass and its detail gives the number of entries; a
\* G3 Fail makes passed false.
C4_PinningGate ==
    (ret.op = "verify" /\ ret.res.ok)
        => PinningAsSpecified(fs, ret.dir, ReadManifest(fs, ret.dir).v, ret.res.v,
                              ret.res.v.gates[3],
                              PinFailures(fs, ret.dir, ReadManifest(fs, ret.dir).v))

\* a verify has found two failing entries and reported G3 Fail
C4_Witness ==
    /\ ret.op = "verify"
    /\ ret.res.ok
    /\ ret.res.v.gates[3].status = "Fail"
    /\ Cardinality(PinFailures(fs, ret.dir, ReadManifest(fs, ret.dir).v)) >= 2

\* C5: G4_SEED_BINDING is Pass iff the manifest's fingerprint is the same
\* string, case included, as the supplied seed's; verifying a pack with a
\* seed whose fingerprint differs from that of the seed it was packed with
\* gives passed = false.
C5_SeedBinding ==
    (ret.op = "verify" /\ ret.res.ok)
        => /\ ret.res.v.gates[4].gate = G4_SEED_BINDING
           /\ (ret.res.v.gates[4].status = "Pass")
                 = (ReadManifest(fs, ret.dir).v.root_2i_seed_fingerprint
                        = ret.seed.fingerprint)
           /\ ret.res.v.gates[4].status \in {"Pass", "Fail"}
           /\ (prov[ret.dir].kind = "pack" /\ prov[ret.dir].tampers = 0
                 /\ prov[ret.dir].seed.fingerprint # ret.seed.fingerprint)
                 => ~ret.res.v.passed

\* a verify with the seed of the pack, against a manifest whose fingerprint
\* differs from the seed's only in case, has reported G4 Fail
C5_Witness ==
    /\ ret.op = "verify"
    /\ ret.res.ok
    /\ prov[ret.dir].kind = "pack"
    /\ prov[ret.dir].seed = ret.seed
    /\ ReadManifest(fs, ret.dir).v.root_2i_seed_fingerprint = UpperHex(ret.seed.fingerprint)
    /\ ret.res.v.gates[4].status = "Fail"
    /\ ~ret.res.v.passed

GateNames(receipt) == [i \in 1..Len(receipt.gates) |-> receipt.gates[i].gate]

\* C7: verify_pack on an untouched pack, with the seed it was packed with,
\* returns passed = true with G0, G1, G3 and G4 all Pass.
C7_CleanPackVerifies ==
    (ret.op = "verify" /\ prov[ret.dir].kind = "pack" /\ prov[ret.dir].tampers = 0
        /\ ret.seed = prov[ret.dir].seed)
        => /\ ret.res.ok
           /\ ret.res.v.passed
           /\ GateNames(ret.res.v) = <<G0_SCHEMA, G1_INTEGRITY, G3_PINNING, G4_SEED_BINDING>>
           /\ \A i \in 1..4 : ret.res.v.gates[i].status = "Pass"

\* a verify of an untouched pack of two files has passed
C7_Witness ==
    /\ ret.op = "verify"
    /\ prov[ret.dir].kind = "pack"
    /\ prov[ret.dir].tampers = 0
    /\ ret.seed = prov[ret.dir].seed
    /\ ret.res.ok
    /\ ret.res.v.passed
    /\ Cardinality(DOMAIN ReadManifest(fs, ret.dir).v.files) = 2

\* C8: after pack_repo into a fresh directory and unfurl_pack of it into an
\* empty target, verify_shape_equivalence(repo_root, target_dir) is true,
\* for every tree and policy.
C8_ShapeEquivalence ==
    (ret.op = "shape" /\ ret.a = RepoRoot /\ prov[ret.b].kind = "unfurl")
        => (ret.res.ok /\ ret.res.v = TRUE)

\* the map from relative path to content digest of the files under data/
DataDigests(F, dir) ==
    [p \in {SubSeq(q, Len(JoinPath(dir, S_data)) + 2, Len(q)) : q \in DataFiles(F, dir)} |->
        compute_sha256(F.files[JoinPath(JoinPath(dir, S_data), p)])]

ManifestDigests(m) == [p \in DOMAIN m.files |-> m.files[p].sha256]

\* C10: two packs of the same tree with the same policy carry the same
\* pack_hash, whatever their output directory and time; pack_hash is
\* determined by the map from included path to content digest alone.
C10_PackDeterminism ==
    /\ \A d1, d2 \in {P1, P2} :
          (prov[d1].kind = "pack" /\ prov[d2].kind = "pack"
              /\ prov[d1].policy = prov[d2].policy)
              => ReadManifest(fs, d1).v.pack_hash = ReadManifest(fs, d2).v.pack_hash
    /\ \A d1, d2 \in {P1, P2} :
          (prov[d1].kind = "pack" /\ prov[d2].kind = "pack"
              /\ DataDigests(fs, d1) = DataDigests(fs, d2))
              => ReadManifest(fs, d1).v.pack_hash = ReadManifest(fs, d2).v.pack_hash
    /\ (ret.op = "pack" /\ ret.res.ok)
          => /\ ret.res.v.pack_hash = Some(ReadManifest(fs, ret.dir).v.pack_hash)
             /\ ManifestDigests(ReadManifest(fs, ret.dir).v) = DataDigests(fs, ret.dir)

\* two packs of a tree of two files stand side by side, made with the same
\* policy at different times with different seeds
C10_Witness ==
    /\ prov[P1].kind = "pack"
    /\ prov[P2].kind = "pack"
    /\ prov[P1].policy = prov[P2].policy
    /\ prov[P1].at # prov[P2].at
    /\ prov[P1].seed # prov[P2].seed
    /\ Cardinality(DOMAIN ReadManifest(fs, P1).v.files) = 2
    /\ ReadManifest(fs, P1).v.created_at # ReadManifest(fs, P2).v.created_at
    /\ ReadManifest(fs, P1).v.pack_hash = ReadManifest(fs, P2).v.pack_hash

(***************************************************************************)
(* Claims about the codec.                                                 *)
(***************************************************************************)
\* the checks of decompress_cpack up to the comparison of the digests, on
\* the bytes of a CPACK file
FrameDecodes(data) ==
    /\ Len(data) >= HEADER_SIZE
    /\ CpackHeader_from_bytes(data).ok
    /\ Len(data) - HEADER_SIZE = FromLe(Slice(data, 40, 48))
    /\ zstd_decode_all(Slice(data, HEADER_SIZE, Len(data))).ok

FramePayload(data) == zstd_decode_all(Slice(data, HEADER_SIZE, Len(data))).v

DigestMatches(data) == sha256_bytes(FramePayload(data)) = Slice(data, 8, 40)

\* every check: length, header, compressed_size, zstd, digest, payload
AllChecksPass(F, cpack_path) ==
    /\ IsFile(F, cpack_path)
    /\ FrameDecodes(F.files[cpack_path])
    /\ DigestMatches(F.files[cpack_path])
    /\ decode_payload(FramePayload(F.files[cpack_path])).ok

HashMismatch(F, cpack_path) ==
    /\ IsFile(F, cpack_path)
    /\ FrameDecodes(F.files[cpack_path])
    /\ ~DigestMatches(F.files[cpack_path])

\* C2: a call of decompress_cpack on a file that fails any of its checks
\* (length, header, compressed_size, zstd, digest, payload decoding) returns an
\* error and leaves the file system as it was: no output directory, no
\* manifest.json, no data file; when the digest is the check that fails, the
\* error is IntegrityMismatch.
C2_DecompressWritesNothing ==
    [][ret'.op = "decompress" =>
          /\ ~AllChecksPass(fs, ret'.path) => (~ret'.res.ok /\ fs' = fs)
          /\ HashMismatch(fs, ret'.path) => ret'.res.err = "IntegrityMismatch"]_vars

C2_Witness ==
    /\ ret.op = "decompress"
    /\ ret.res.err = "IntegrityMismatch"
    /\ ~PathExists(fs, ret.out)

\* C3: decompress_cpack fails on a file that compress_dpack wrote and in which
\* one byte at an offset of 4 or more was changed afterwards.
C3_SingleByteChange ==
    (/\ ret.op = "decompress"
     /\ prov[ret.path].kind = "flipped"
     /\ prov[ret.path].offset >= 4)
        => ~ret.res.ok

\* the data files below a pack directory, by relative path
DataTree(F, dir) ==
    [rel \in {SubSeq(p, Len(JoinPath(dir, S_data)) + 2, Len(p)) : p \in DataFiles(F, dir)}
        |-> F.files[JoinPath(JoinPath(dir, S_data), rel)]]

SameManifest(a, b) ==
    /\ a.ok
    /\ b.ok
    /\ a.v.pack_hash = b.v.pack_hash
    /\ a.v.files = b.v.files

RestoresAll(restored, packed) ==
    \A rel \in DOMAIN packed :
        rel \in DOMAIN restored /\ restored[rel] = packed[rel]

\* C6: decompress_cpack of a file that compress_dpack wrote from an untouched
\* pack directory, into a directory that did not exist, succeeds; the manifest
\* it restores has the pack_hash and the files map of the pack's manifest,
\* every data file of the pack is restored with the same bytes, and the digest
\* returned is the one compress_dpack returned.
C6_RoundTrip ==
    (/\ ret.op = "decompress"
     /\ ret.fresh
     /\ prov[ret.path].kind = "cpack"
     /\ prov[prov[ret.path].src].tampers = 0)
        => /\ ret.res.ok
           /\ ret.res.v = prov[ret.path].hash
           /\ SameManifest(ReadManifest(fs, ret.out),
                           ReadManifest(fs, prov[ret.path].src))
           /\ RestoresAll(DataTree(fs, ret.out), DataTree(fs, prov[ret.path].src))

C6_Witness ==
    /\ ret.op = "decompress"
    /\ ret.fresh
    /\ prov[ret.path].kind = "cpack"
    /\ ret.res.ok
    /\ Cardinality(DataFiles(fs, ret.out)) = 2

\* C9: two CPACK files that compress_dpack wrote from one pack directory, with
\* no change to the directory between the two runs, hold the same bytes, and
\* the two runs returned the same digest.
C9_CompressDeterminism ==
    (/\ prov[CpackA].kind = "cpack"
     /\ prov[CpackB].kind = "cpack"
     /\ prov[CpackA].src = prov[CpackB].src
     /\ prov[CpackA].gen = prov[CpackB].gen)
        => /\ fs.files[CpackA] = fs.files[CpackB]
           /\ prov[CpackA].hash = prov[CpackB].hash

C9_Witness ==
    /\ ret.op = "compress"
    /\ prov[CpackA].kind = "cpack"
    /\ prov[CpackB].kind = "cpack"
    /\ prov[CpackA].gen = prov[CpackB].gen
    /\ Cardinality(DataFiles(fs, P1)) = 2

(***************************************************************************)
(* Policy and receipts.                                                    *)
(***************************************************************************)
\* some glob of the list matches the path
SomeGlobMatches(globs, path) ==
    \E k \in 1..Len(globs) : glob_match(globs[k], path) = "T"

EffectivePolicy(policy) == IF policy.some THEN policy.v ELSE Policy_default

\* the relative paths of the regular files of the repository, as pack_repo
\* computes them
RepoRelPaths(F) ==
    {NormalizeRel(WalkFiles(F, RepoRoot)[i]) : i \in 1..Len(WalkFiles(F, RepoRoot))}

PackedExactly(policy, rels, keys, data) ==
    /\ \A p \in keys \cup data : is_allowed(policy, p) = "T"
    /\ \A p \in rels : is_allowed(policy, p) = "T" => (p \in keys /\ p \in data)

\* C12: after pack_repo into a fresh output directory, no relative path the
\* policy does not allow is a key of manifest.files or a file under data/,
\* and every regular file of the repository that the policy allows is both.
C12_PolicyExclusion ==
    (ret.op = "pack" /\ ret.res.ok) =>
        /\ ReadManifest(fs, ret.dir).ok
        /\ PackedExactly(EffectivePolicy(ret.policy), RepoRelPaths(fs),
                         DOMAIN ReadManifest(fs, ret.dir).v.files,
                         DOMAIN DataTree(fs, ret.dir))

\* a pack of a repository of which the policy allowed one file and refused
\* another
C12_Witness ==
    /\ ret.op = "pack" /\ ret.res.ok
    /\ \E p \in RepoRelPaths(fs) : is_allowed(EffectivePolicy(ret.policy), p) = "F"
    /\ \E p \in DOMAIN DataTree(fs, ret.dir) : p \in DOMAIN ReadManifest(fs, ret.dir).v.files

\* C13: every receipt, AuditReceipt or ReplicationReceipt, has passed equal
\* to true exactly when none of its gates has the status Fail: a Skip does
\* not fail it, a receipt without gates passes, and one Fail at any position
\* makes passed false.
C13_PassedIffNoFail ==
    ret.op = "receipt" =>
        (ret.receipt.passed <=>
            ~(\E i \in 1..Len(ret.receipt.gates) : ret.receipt.gates[i].status = "Fail"))

\* an audit receipt that passed with a Skip among several gates
C13_Witness ==
    /\ ret.op = "receipt" /\ ret.of = "audit"
    /\ Len(ret.receipt.gates) > 1
    /\ \E i \in 1..Len(ret.receipt.gates) : ret.receipt.gates[i].status = "Skip"
    /\ ret.receipt.passed

(***************************************************************************)
(* Replication.                                                            *)
(***************************************************************************)
HasFailGate(receipt) ==
    \E i \in 1..Len(receipt.gates) : receipt.gates[i].status = "Fail"

ReceiptFile(dir) == JoinPath(dir, S_replication_receipt_json)

\* C14: whenever replicate_local returns Ok, having written
\* replication_receipt.json into the target, the receipt has passed true and
\* source_pack_hash and target_pack_hash both present and equal; it holds no
\* Fail gate, and the file in the target is that receipt.
C14_LocalReceiptPassed ==
    (ret.op = "replicate_local" /\ ret.res.ok) =>
        /\ ret.res.v.passed
        /\ ~HasFailGate(ret.res.v)
        /\ ret.res.v.source_pack_hash.some
        /\ ret.res.v.target_pack_hash.some
        /\ ret.res.v.source_pack_hash = ret.res.v.target_pack_hash
        /\ IsFile(fs, ReceiptFile(ret.target))
        /\ fs.files[ReceiptFile(ret.target)] = ReplicationReceipt_to_json(ret.res.v)

\* a clone that succeeded although the policy kept a file of the repository
\* out of the pack
C14_Witness ==
    /\ ret.op = "replicate_local" /\ ret.res.ok
    /\ \E p \in RepoRelPaths(fs) : is_allowed(EffectivePolicy(ret.policy), p) = "F"
    /\ IsFile(fs, ReceiptFile(ret.target))

\* replicate_local returned the error of a shape mismatch
ShapeMismatch(res) == ~res.ok /\ res.err = "Failed"

\* the text is the JSON of a replication receipt of this run that holds the
\* RG2 gate with the status Fail and ends there
FailedReceiptOf(text, seed, source_pack_hash, now) ==
    text = ReplicationReceipt_to_json(
               ReplicationReceipt_new(<<114, 101, 112, 108, 105, 99, 97, 116, 101>> (* "replicate" *), <<82, 48, 95, 76, 79, 67, 65, 76, 95, 67, 76, 79, 78, 69>> (* "R0_LOCAL_CLONE" *), seed.fingerprint,
                   source_pack_hash, None,
                   <<ReplicationGateResult(RG0_POLICY, "Pass", <<112, 111, 108, 105, 99, 121, 32, 97, 112, 112, 108, 105, 101, 100>> (* "policy applied" *)),
                     ReplicationGateResult(RG1_SEED_BINDING, "Pass",
                         <<115, 101, 101, 100, 95, 102, 112, 61>> (* "seed_fp=" *) \o Prefix16(seed.fingerprint)),
                     ReplicationGateResult(RG2_SHAPE_EQUIVALENCE, "Fail",
                                           <<116, 114, 101, 101, 32, 115, 104, 97, 112, 101, 32, 109, 105, 115, 109, 97, 116, 99, 104>> (* "tree shape mismatch" *))>>,
                   now))

\* the hash pack_repo gives the repository under the policy
SourcePackHash(F, policy) ==
    compute_pack_hash([p \in {q \in DOMAIN CollectShape(F, RepoRoot) :
                                 is_allowed(EffectivePolicy(policy), q) = "T"} |->
                          FileEntry(CollectShape(F, RepoRoot)[p], 0)])

SameFileAt(F, G, p) ==
    /\ IsFile(F, p) <=> IsFile(G, p)
    /\ IsFile(F, p) => F.files[p] = G.files[p]

\* the tree of the target once the allowed files of the repository are
\* restored into it over what it held
RestoredShape(src, held, allowed) ==
    [p \in (DOMAIN held) \cup allowed |-> IF p \in allowed THEN src[p] ELSE held[p]]

TargetShape(F, target) ==
    IF PathExists(F, target) THEN CollectShape(F, target) ELSE << >>

\* RG2 fails for a clone begun in F: the restored target differs from the
\* repository
ShapeDiffers(F, target, policy) ==
    RestoredShape(CollectShape(F, RepoRoot), TargetShape(F, target),
                  {p \in DOMAIN CollectShape(F, RepoRoot) :
                      is_allowed(EffectivePolicy(policy), p) = "T"})
        # CollectShape(F, RepoRoot)

\* C15: when RG2_SHAPE_EQUIVALENCE fails in replicate_local, the call returns
\* ReplicationError::Failed whose reason is the JSON of a receipt holding the
\* RG2 gate with the status Fail, and replication_receipt.json in the target
\* is neither written nor changed.
C15_ShapeFailure ==
    [][(ret'.op = "replicate_local"
        /\ (ShapeMismatch(ret'.res) \/ ShapeDiffers(fs, ret'.target, ret'.policy)))
       => /\ ShapeMismatch(ret'.res)
          /\ FailedReceiptOf(ret'.res.reason, ret'.seed,
                             Some(SourcePackHash(fs, ret'.policy)), Timestamp(clock))
          /\ SameFileAt(fs, fs', ReceiptFile(ret'.target))]_vars

\* a clone of a repository holding a file the policy refuses, into an absent
\* target: RG2 failed and the target holds no receipt
C15_Witness ==
    /\ ret.op = "replicate_local"
    /\ ShapeMismatch(ret.res)
    /\ \E p \in RepoRelPaths(fs) : is_allowed(EffectivePolicy(ret.policy), p) = "F"
    /\ IsDir(fs, ret.target)
    /\ ~IsFile(fs, ReceiptFile(ret.target))

(***************************************************************************)
(* The verify subcommand.                                                  *)
(***************************************************************************)
\* C16: originctl verify exits 0 only if verify_pack was evaluated, on the
\* DPACK directory or on the DPACK a CPACK file holds, and every gate
\* passed: its gates were printed, and none of them is Fail.
C16_VerifyExit ==
    (ret.op = "run_verify" /\ ret.exit = 0) =>
        /\ ret.res.v.some
        /\ ret.res.v.v.passed
        /\ ~(\E i \in 1..Len(ret.res.v.v.gates) : ret.res.v.v.gates[i].status = "Fail")

(***************************************************************************)
(* Hashes and sidecar files.                                               *)
(***************************************************************************)
SidecarNames == {S_receipt_json, S_unfurl_receipt_json, S_replication_receipt_json}

\* the file system as it would be had no receipt file been written
WithoutSidecars(F) ==
    [F EXCEPT !.files =
        [p \in {q \in DOMAIN @ : \A n \in SidecarNames : ~EndsWith(q, <<Slash>> \o n)} |->
            @[p]]]

\* C17: no hash depends on a receipt or sidecar file: a pack_hash that
\* pack_repo returns is the one it would return had receipt.json,
\* unfurl_receipt.json and replication_receipt.json never been written; so
\* packing the target of a successful replicate_local gives the pack_hash of
\* the source.
C17_SidecarFreeHash ==
    (ret.op = "pack_from" /\ ret.res.ok) =>
        ret.res.v.pack_hash =
            pack_repo(WithoutSidecars(remove_dir_all(fs, ret.dir)), ret.src, ret.dir,
                      ret.seed, ret.policy, Timestamp(clock)).res.v.pack_hash

(***************************************************************************)
(* The manifest in a CPACK file.                                           *)
(***************************************************************************)
\* the manifest JSON bytes in the payload of a CPACK file
PayloadManifest(data) == decode_payload(FramePayload(data)).v.manifest_json

\* C18: the manifest JSON bytes compress_dpack puts in the payload are the
\* bytes of the pretty-printed manifest.json pack_repo wrote, so the
\* manifest.json that decompress_cpack restores is byte-identical to the
\* original one.
C18_ManifestBytes ==
    /\ (ret.op = "compress" /\ ret.res.ok /\ prov[ret.dir].tampers = 0) =>
          PayloadManifest(fs.files[ret.path]) = fs.files[JoinPath(ret.dir, S_manifest_json)]
    /\ (/\ ret.op = "decompress" /\ ret.res.ok /\ ret.fresh
        /\ prov[ret.path].kind = "cpack" /\ prov[ret.path].gen = 0
        /\ prov[prov[ret.path].src].tampers = 0) =>
          fs.files[JoinPath(ret.out, S_manifest_json)]
              = fs.files[JoinPath(prov[ret.path].src, S_manifest_json)]

(***************************************************************************)
(* What a passed verification says about the data files.                   *)
(***************************************************************************)
EntryHolds(F, path, entry) ==
    /\ IsFile(F, path)
    /\ compute_sha256(F.files[path]) = entry.sha256
    /\ Len(F.files[path]) = entry.size

\* C19: in every DPACK for which verify_pack returns a receipt that passed,
\* the file under data/ of each manifest entry has the entry's SHA-256 and
\* the entry's size as its length in bytes.
C19_PassedMeansPinned ==
    (ret.op = "verify" /\ ret.res.ok /\ ret.res.v.passed) =>
        \A p \in DOMAIN ReadManifest(fs, ret.dir).v.files :
            EntryHolds(fs, JoinPath(JoinPath(ret.dir, S_data), p),
                       ReadManifest(fs, ret.dir).v.files[p])

(***************************************************************************)
(* The rootball receipt.                                                   *)
(***************************************************************************)
RootballGateNames ==
    {RG0_POLICY, RG1_SEED_BINDING, RG5_RECEIPT,
     G0_SCHEMA, G1_INTEGRITY, G4_SEED_BINDING, G6_ORGASYSTEM_SHAPE, G7_RELEASE_RECEIPT}

\* C20: the receipt replicate_rootball returns and writes holds the gates
\* RG0_POLICY, RG1_SEED_BINDING and RG5_RECEIPT together with the gates of
\* the pack below it: G0_SCHEMA, G1_INTEGRITY, G4_SEED_BINDING,
\* G6_ORGASYSTEM_SHAPE and G7_RELEASE_RECEIPT.
C20_RootballGates ==
    (ret.op = "replicate_rootball" /\ ret.res.ok) =>
        /\ ret.res.v.mode = <<82, 49, 95, 82, 79, 79, 84, 66, 65, 76, 76, 95, 83, 69, 69, 68>> (* "R1_ROOTBALL_SEED" *)
        /\ fs.files[ReceiptFile(ret.dir)] = ReplicationReceipt_to_json(ret.res.v)
        /\ \A g \in RootballGateNames :
              \E i \in 1..Len(ret.res.v.gates) : ret.res.v.gates[i].gate = g

(***************************************************************************)
(* Replication of an extracted directory.                                  *)
(***************************************************************************)
\* C21: replicate_zip2repo_v1 applies the steps and gates of replicate_local
\* to its source directory: after pack, unfurl and RG2_SHAPE_EQUIVALENCE it
\* packs the target again for RG3_CONTENT_EQUIVALENCE, then RG5_RECEIPT, and
\* its receipt records target_pack_hash, equal to source_pack_hash.
C21_ZipAsLocal ==
    (ret.op = "replicate_zip2repo_v1" /\ ret.res.ok) =>
        /\ GateNames(ret.res.v) = <<RG0_POLICY, RG1_SEED_BINDING, RG2_SHAPE_EQUIVALENCE,
                                    RG3_CONTENT_EQUIVALENCE, RG5_RECEIPT>>
        /\ ret.res.v.target_pack_hash.some
        /\ ret.res.v.target_pack_hash = ret.res.v.source_pack_hash


\* byte i of a buffer, counted from 0 as the source counts
ByteAt(data, i) == data[i + 1]

HeaderAccepted(d) ==
    /\ Len(d) >= 48
    /\ SubSeq(d, 1, 4) = <<67, 80, 67, 75>> (* "CPCK" *)
    /\ ByteAt(d, 4) = 1
    /\ ByteAt(d, 5) = 1

\* C22: CpackHeader::from_bytes accepts a buffer iff it has at least 48 bytes,
\* bytes 0..4 are "CPCK", byte 4 is 1 and byte 5 is 1; the error is that of the
\* first failing check in the order HeaderTooShort, BadMagic,
\* UnsupportedVersion(v), UnsupportedCompression(m); an accepted header has
\* payload_sha256 = bytes 8..40 and compressed_size = the little-endian u64 of
\* bytes 40..48; to_bytes yields 48 bytes and from_bytes(to_bytes(h)) is h for a
\* header of version 1 and method 1.
C22_HeaderParse ==
    /\ ret.op = "from_bytes" =>
          /\ ret.res.ok <=> HeaderAccepted(ret.data)
          /\ Len(ret.data) < 48 =>
                ret.res = ErrReason("HeaderTooShort", <<Len(ret.data), 48>>)
          /\ (Len(ret.data) >= 48 /\ SubSeq(ret.data, 1, 4) # <<67, 80, 67, 75>> (* "CPCK" *)) =>
                ret.res = Err("BadMagic")
          /\ (Len(ret.data) >= 48 /\ SubSeq(ret.data, 1, 4) = <<67, 80, 67, 75>> (* "CPCK" *)
                /\ ByteAt(ret.data, 4) # 1) =>
                ret.res = ErrReason("UnsupportedVersion", <<ByteAt(ret.data, 4)>>)
          /\ (Len(ret.data) >= 48 /\ SubSeq(ret.data, 1, 4) = <<67, 80, 67, 75>> (* "CPCK" *)
                /\ ByteAt(ret.data, 4) = 1 /\ ByteAt(ret.data, 5) # 1) =>
                ret.res = ErrReason("UnsupportedCompression", <<ByteAt(ret.data, 5)>>)
          /\ ret.res.ok =>
                /\ ret.res.v.version = 1
                /\ ret.res.v.compression_method = 1
                /\ ret.res.v.payload_sha256 = SubSeq(ret.data, 9, 40)
                /\ ret.res.v.compressed_size = FromLe(SubSeq(ret.data, 41, 48))
    /\ ret.op = "to_bytes" =>
          /\ Len(ret.data) = 48
          /\ (ret.h.version = 1 /\ ret.h.compression_method = 1) => ret.res = Ok(ret.h)

\* a buffer whose version and method are both unsupported is refused for its
\* version
C22_Witness ==
    /\ ret.op = "from_bytes"
    /\ Len(ret.data) >= 48
    /\ ByteAt(ret.data, 4) = 2
    /\ ByteAt(ret.data, 5) = 2
    /\ ret.res.err = "UnsupportedVersion"

\* the file count a payload declares, when the payload is long enough to hold it
DeclaredCount(data) ==
    FromLe(Slice(data, 4 + FromLe(Slice(data, 0, 4)), 8 + FromLe(Slice(data, 0, 4))))

\* C23: decode_payload returns PayloadTruncated for every strict prefix of an
\* output of encode_payload, and whenever it returns Ok, of whatever bytes, the
\* list it returns has as many files as the payload declares.
C23_PrefixTruncated ==
    /\ ret.op = "decode_prefix" => ret.res = Err("PayloadTruncated")
    /\ (ret.op \in {"decode_payload", "decode_prefix", "decode_changed"} /\ ret.res.ok) =>
          Len(ret.res.v.files) = DeclaredCount(ret.data)

\* a payload of two files cut exactly after its first file
C23_Witness ==
    /\ ret.op = "decode_prefix"
    /\ Len(ret.files) = 2
    /\ ret.data = ToLe(Len(ret.manifest_json), 4) \o ret.manifest_json \o ToLe(2, 4)
                      \o EncodeFile(ret.files[1].path, ret.files[1].content)
    /\ ret.res.err = "PayloadTruncated"

\* C24: decode_payload(encode_payload(manifest, files)) returns the same
\* manifest bytes and the same files in the same order.
C24_PayloadRoundTrip ==
    ret.op = "decode_payload" =>
        ret.res = Ok([manifest_json |-> ret.manifest_json, files |-> ret.files])

\* two different files come back in the order they went in
C24_Witness ==
    /\ ret.op = "decode_payload"
    /\ Len(ret.files) = 2
    /\ ret.files[1] # ret.files[2]
    /\ ret.res.ok
    /\ ret.res.v.files = ret.files

StrictlyAscending(s) == \A i \in 1..(Len(s) - 1) : LexLess(s[i], s[i + 1])

\* the paths of the files of the payload of a CPACK file, in payload order
PayloadPathsOf(data) ==
    [i \in 1..Len(decode_payload(FramePayload(data)).v.files) |->
        decode_payload(FramePayload(data)).v.files[i].path]

\* the quoted strings of a JSON text, in the order of the text
QuotedStrings(bytes, q) ==
    [j \in 1..(Len(q) \div 2) |-> SubSeq(bytes, q[2 * j - 1] + 1, q[2 * j] - 1)]

\* the keys of "files" in the text of a manifest.json, in the order of the
\* text: after the five strings that precede them comes one key every four
\* strings (key, "sha256", digest, "size"), and "pack_hash" and its value end
\* the text
ManifestKeysOf(strings) ==
    [i \in 1..((Len(strings) - 11) \div 4) |-> strings[10 + 4 * (i - 1)]]

ManifestPathsOf(bytes) ==
    ManifestKeysOf(QuotedStrings(bytes, Positions(bytes, LAMBDA b : b = 34)))

\* C25: the files of every payload compress_dpack builds, and the keys of
\* "files" in every manifest.json pack_repo writes, are in strictly ascending
\* byte order of their relative paths, whatever the order of the walk.
C25_AscendingPaths ==
    /\ (ret.op = "compress" /\ ret.res.ok) =>
          StrictlyAscending(PayloadPathsOf(fs.files[ret.path]))
    /\ (ret.op = "pack" /\ ret.res.ok) =>
          StrictlyAscending(ManifestPathsOf(fs.files[JoinPath(ret.dir, S_manifest_json)]))

\* a payload that holds a.txt before a/b, which the walk meets in the other
\* order
C25_Witness ==
    /\ ret.op = "compress" /\ ret.res.ok
    /\ WalkFiles(fs, JoinPath(ret.dir, S_data)) = <<<<97, 47, 98>> (* "a/b" *), <<97, 46, 116, 120, 116>> (* "a.txt" *)>>
    /\ PayloadPathsOf(fs.files[ret.path]) = <<<<97, 46, 116, 120, 116>> (* "a.txt" *), <<97, 47, 98>> (* "a/b" *)>>
    /\ ManifestPathsOf(fs.files[JoinPath(ret.dir, S_manifest_json)]) = <<<<97, 46, 116, 120, 116>> (* "a.txt" *), <<97, 47, 98>> (* "a/b" *)>>

\* the path itself and what follows each of its '/' separators
Remainders(path) ==
    {path} \cup {SubSeq(path, i + 1, Len(path)) : i \in {j \in 1..Len(path) : path[j] = Slash}}

\* C26: a pattern **/X matches a path exactly when X matches the whole path
\* or the remainder of the path after one of its '/' separators; in
\* particular not when X begins in the middle of a path segment.
C26_DoubleStarPrefix ==
    (ret.op = "glob_match" /\ StartsWith(ret.pattern, S_ddslash)) =>
        (ret.res = "T" <=>
            \E rest \in Remainders(ret.path) :
                glob_match(SubSeq(ret.pattern, 4, Len(ret.pattern)), rest) = "T")

\* the pattern is P*S with exactly one star and is neither **/X nor X/**
SingleStar(pattern) ==
    /\ Len(Positions(pattern, LAMBDA b : b = Star)) = 1
    /\ ~StartsWith(pattern, S_ddslash)
    /\ ~EndsWith(pattern, S_slashdd)

StarPrefix(pattern) == SubSeq(pattern, 1, Positions(pattern, LAMBDA b : b = Star)[1] - 1)

StarSuffix(pattern) == SubSeq(pattern, Positions(pattern, LAMBDA b : b = Star)[1] + 1, Len(pattern))

\* path = P + M + S for some M without '/'
StarFits(p, s, path) ==
    /\ Len(p) + Len(s) <= Len(path)
    /\ StartsWith(path, p)
    /\ EndsWith(path, s)
    /\ ~Contains(SubSeq(path, Len(p) + 1, Len(path) - Len(s)), Slash)

\* C27: for a pattern P*S with exactly one star, glob_match returns true when
\* the path is P + M + S for some M, possibly empty, without '/', and returns
\* false for every other path, those in which P and S overlap included.
C27_SingleStar ==
    (ret.op = "glob_match" /\ SingleStar(ret.pattern)) =>
        ret.res = (IF StarFits(StarPrefix(ret.pattern), StarSuffix(ret.pattern), ret.path)
                   THEN "T" ELSE "F")

\* every file of the manifest that is in the target has the recorded digest
TargetPinned(F, target, files) ==
    \A rel \in DOMAIN files :
        IsFile(F, JoinPath(target, rel)) =>
            compute_sha256(F.files[JoinPath(target, rel)]) = files[rel].sha256

\* the files before the offending one are in the target, that one and the
\* later ones are not
StoppedAt(F, target, files, victim) ==
    \A rel \in DOMAIN files :
        IsFile(F, JoinPath(target, rel)) <=> LexLess(rel, victim)

\* the victim had not yet been read when its content was replaced
ReadAfterChange(files, victim, turn) ==
    Cardinality({rel \in DOMAIN files : LexLess(rel, victim)}) >= turn

\* C28: unfurl_pack writes to the target no file whose SHA-256 differs from
\* the manifest's, also when a data file is replaced after the verification
\* and before it is copied: the files are taken in ascending order, the first
\* mismatch ends the call with VerificationFailed before that file is written,
\* and no unfurl_receipt.json is written.
C28_WriteAfterCheck ==
    ret.op = "unfurl_raced" =>
        /\ TargetPinned(fs, ret.target, ReadManifest(fs, ret.dir).v.files)
        /\ (ret.seed = prov[ret.dir].seed
              /\ ReadAfterChange(ReadManifest(fs, ret.dir).v.files, ret.victim, ret.turn)) =>
              /\ ret.res.err = "VerificationFailed"
              /\ StoppedAt(fs, ret.target, ReadManifest(fs, ret.dir).v.files, ret.victim)
              /\ ~IsFile(fs, JoinPath(ret.dir, S_unfurl_receipt_json))

\* the second of two files was replaced after the first had been restored
C28_Witness ==
    /\ ret.op = "unfurl_raced"
    /\ ret.turn = 1
    /\ ret.res.err = "VerificationFailed"
    /\ \E rel \in DOMAIN ReadManifest(fs, ret.dir).v.files :
          /\ LexLess(rel, ret.victim)
          /\ IsFile(fs, JoinPath(ret.target, rel))
    /\ ~IsFile(fs, JoinPath(ret.target, ret.victim))

\* p is dir or lies below it
Inside(dir, p) == p = dir \/ StartsWith(p, dir \o <<Slash>>)

\* the files that exist after and did not before, or hold other bytes
Touched(F, G) ==
    {p \in DOMAIN G.files : ~IsFile(F, p) \/ F.files[p] # G.files[p]}

\* C29: decompress_cpack creates or overwrites files only inside its output
\* directory, whatever paths the payload of the CPACK file records.
C29_InsideOutput ==
    [][ret'.op = "decompress" => \A p \in Touched(fs, fs') : Inside(ret'.out, p)]_vars

\* C30: the bytes compute_pack_hash feeds to the hasher determine the files
\* map: two different maps from path to sha256 never give the same bytes.
C30_PreimageInjective ==
    (ret.op = "compute_pack_hash" /\ ret.fed_a = ret.fed_b) => ret.a = ret.b
====
